---- MODULE Spec2Model ----
(***************************************************************************)
(* chain_verse: keyword collection and daily poem generation.              *)
(*                                                                         *)
(* The store (keywords, poems), the derivation engine, the generation      *)
(* client with its retry loop and the scheduler loop of the backend crate, *)
(* together with the single-date backfill tool that writes poems into the  *)
(* same store.                                                             *)
(***************************************************************************)
EXTENDS Integers, Sequences, FiniteSets, TLC

(***************************************************************************)
(* Bounds of the model.                                                    *)
(***************************************************************************)
\* keyword rows already in the store file when the process starts
InitRows == 7
\* slots the chain still produces while the model runs
NewSlots == 2
\* calendar days after the first one
MaxDay == 1
\* last time of day (the clock has MaxTod + 1 readings per day)
MaxTod == 1

MaxSlot == InitRows + NewSlots

(***************************************************************************)
(* Program constants.                                                      *)
(***************************************************************************)
MIN_KEYWORDS_FOR_POEM == 8
MAX_KEYWORDS_FOR_POEM == 24
\* generate_poem: self.generate_poem_with_retry(keywords, 3)
max_retries == 3
\* base of the backoff: 2u64.pow(attempt)
BackoffBase == 2
\* insert_keyword_with_date pins the creation time to "<date> 12:00:00"
Noon == 1

(***************************************************************************)
(* Result<T>, Option<T> and a panic (unwinding) outcome.                   *)
(***************************************************************************)
Ok(v) == [tag |-> "Ok", val |-> v]
Err(e) == [tag |-> "Err", err |-> e]
Panic(m) == [tag |-> "Panic", msg |-> m]
None == <<>>
Some(v) == <<v>>
IsSome(o) == o # <<>>

RECURSIVE Pow(_, _)
Pow(b, e) == IF e = 0 THEN 1 ELSE b * Pow(b, e - 1)

(***************************************************************************)
(* words.rs: the dictionary.                                               *)
(***************************************************************************)
EmptyDictionary == [nouns |-> <<>>, verbs |-> <<>>, adjectives |-> <<>>]
SmallDictionary ==
  [nouns |-> <<"moon", "river">>, verbs |-> <<"drift">>, adjectives |-> <<"pale", "silent">>]
Dictionaries == {EmptyDictionary, SmallDictionary}

all_words(dict) == dict.nouns \o dict.verbs \o dict.adjectives
total_count(dict) == Len(dict.nouns) + Len(dict.verbs) + Len(dict.adjectives)

(***************************************************************************)
(* blockchain.rs: the blocks the RPC node serves.                          *)
(***************************************************************************)
HashNames == <<"hA", "hB", "hC", "hD">>
HashAt(s) == HashNames[(s % Len(HashNames)) + 1]

BlockAt(s) ==
  [slot |-> s,
   blockhash |-> HashAt(s),
   previous_blockhash |-> HashAt(s - 1),
   block_time |-> IF s % 2 = 0 THEN None ELSE Some(1000 + s),
   block_height |-> Some(s),
   parent_slot |-> s - 1,
   transaction_count |-> 3,
   sample_signatures |-> <<"sig1", "sig2", "sig3">>]

(***************************************************************************)
(* derivation.rs                                                           *)
(***************************************************************************)
\* First 8 bytes of the SHA-256 digest of the entropy strings of the model.
Sha256First8(input) ==
  CASE input = "hA" -> <<184, 28, 234, 105, 27, 91, 29, 44>>
    [] input = "hB" -> <<139, 209, 71, 108, 185, 17, 52, 24>>
    [] input = "hC" -> <<212, 189, 23, 161, 234, 194, 40, 212>>
    [] input = "hD" -> <<62, 182, 100, 26, 158, 225, 176, 6>>
    [] input = "sig1:0" -> <<162, 218, 27, 177, 123, 107, 80, 72>>
    [] input = "sig1:1" -> <<141, 207, 61, 253, 90, 75, 126, 43>>
    [] input = "sig1:2" -> <<74, 177, 220, 78, 37, 164, 219, 130>>
    [] input = "sig2:0" -> <<225, 133, 160, 158, 108, 64, 190, 190>>
    [] input = "sig2:1" -> <<56, 23, 146, 116, 221, 2, 85, 161>>
    [] input = "sig2:2" -> <<6, 133, 170, 5, 244, 88, 30, 221>>
    [] input = "sig3:0" -> <<73, 33, 62, 238, 32, 219, 44, 172>>
    [] input = "sig3:1" -> <<168, 190, 4, 223, 138, 163, 85, 200>>
    [] input = "sig3:2" -> <<174, 45, 170, 156, 211, 1, 19, 102>>
    [] input = "sig1:3" -> <<217, 6, 204, 63, 194, 139, 18, 62>>
    [] input = "sig1:4" -> <<82, 5, 21, 157, 217, 68, 39, 144>>
    [] input = "sig3:3" -> <<155, 94, 139, 121, 168, 253, 105, 208>>
    [] input = "sig3:4" -> <<240, 172, 101, 138, 179, 61, 17, 161>>
    [] input = "" -> <<227, 176, 196, 66, 152, 252, 28, 20>>
    [] input = "sig1" -> <<100, 87, 97, 239, 12, 182, 105, 228>>
    [] input = "sig1:sig2:sig3" -> <<35, 113, 65, 129, 121, 108, 159, 212>>
    [] input = "rewards:0" -> <<237, 173, 103, 208, 181, 61, 30, 165>>
    [] input = "rewards:8" -> <<134, 208, 254, 188, 129, 251, 48, 32>>
    [] input = "rewards:9" -> <<117, 111, 144, 230, 223, 155, 186, 215>>
    [] input = "txcount:0:8" -> <<236, 170, 55, 231, 253, 36, 244, 25>>
    [] input = "txcount:1:8" -> <<66, 66, 35, 164, 249, 104, 219, 184>>
    [] input = "txcount:3:8" -> <<162, 59, 63, 145, 114, 224, 211, 201>>
    [] input = "txcount:0:9" -> <<96, 87, 61, 189, 29, 57, 41, 252>>
    [] input = "txcount:1:9" -> <<205, 7, 30, 144, 99, 29, 68, 211>>
    [] input = "txcount:3:9" -> <<201, 154, 21, 79, 221, 255, 81, 221>>

\* mutant: the 8 bytes are read as a big-endian integer
hash_to_seed_BigEndian(input) ==
  LET bytes == Sha256First8(input)
  IN  [i \in DOMAIN bytes |-> bytes[Len(bytes) + 1 - i]]

\* hash_to_seed: the 8 bytes are the little-endian digits of the u64 seed.
hash_to_seed(input) == Sha256First8(input)

\* (u64::from_le_bytes(bytes)) % n, evaluated from the most significant byte
\* down so that no intermediate value leaves the 32-bit range.
RECURSIVE U64RemFrom(_, _, _, _)
U64RemFrom(bytes, i, acc, n) ==
  IF i = 0 THEN acc ELSE U64RemFrom(bytes, i - 1, (acc * 256 + bytes[i]) % n, n)
U64Rem(bytes, n) == U64RemFrom(bytes, Len(bytes), 0, n)

\* [String]::join(sep)
RECURSIVE Join(_, _)
Join(strings, sep) ==
  IF strings = <<>> THEN ""
  ELSE IF Len(strings) = 1 THEN strings[1]
  ELSE strings[1] \o sep \o Join(Tail(strings), sep)

BlockDataSources ==
  {"Blockhash", "PreviousBlockhash", "TransactionRoot", "Rewards", "TransactionCount"}

get_entropy_for_source(block, source) ==
  CASE source = "Blockhash" -> block.blockhash
    [] source = "PreviousBlockhash" -> block.previous_blockhash
    [] source = "TransactionRoot" -> Join(block.sample_signatures, ":")
    [] source = "Rewards" ->
         "rewards:" \o ToString(IF IsSome(block.block_height) THEN block.block_height[1] ELSE 0)
    [] source = "TransactionCount" ->
         "txcount:" \o ToString(block.transaction_count) \o ":" \o ToString(block.slot)

\* mutant: the slot of the block enters the index
derive_keyword_from_source_SlotSalted(dict, block, source) ==
  LET entropy == get_entropy_for_source(block, source)
      seed == hash_to_seed(entropy)
      word_count == total_count(dict)
  IN  IF word_count = 0
        THEN Panic("attempt to calculate the remainder with a divisor of zero")
        ELSE LET word_index == (U64Rem(seed, word_count) + block.slot) % word_count
                 words == all_words(dict)
             IN  Ok([word |-> words[word_index + 1],
                     slot |-> block.slot,
                     blockhash |-> block.blockhash,
                     block_time |-> block.block_time,
                     word_index |-> word_index,
                     source |-> source])

derive_keyword_from_source(dict, block, source) ==
  LET entropy == get_entropy_for_source(block, source)
      seed == hash_to_seed(entropy)
      word_count == total_count(dict)
  IN  IF word_count = 0
        THEN Panic("attempt to calculate the remainder with a divisor of zero")
        ELSE LET word_index == U64Rem(seed, word_count)
                 words == all_words(dict)
             IN  IF word_index + 1 \in DOMAIN words
                   THEN Ok([word |-> words[word_index + 1],
                            slot |-> block.slot,
                            blockhash |-> block.blockhash,
                            block_time |-> block.block_time,
                            word_index |-> word_index,
                            source |-> source])
                   ELSE Err("Word index out of bounds")

\* mutant: the default source is the previous block's hash
derive_keyword_PreviousBlockhash(dict, block) ==
  derive_keyword_from_source(dict, block, "PreviousBlockhash")

derive_keyword(dict, block) == derive_keyword_from_source(dict, block, "Blockhash")

\* block.sample_signatures.iter().take(3)
SampleTake == 3

RECURSIVE SignatureKeywords_NoUniqueTest(_, _, _, _, _)
RECURSIVE SignatureKeywords(_, _, _, _, _)
\* mutant: a signature's word is pushed without the uniqueness test
SignatureKeywords_NoUniqueTest(dict, block, keywords, i, n) ==
  IF i >= n THEN keywords
  ELSE LET entropy == block.sample_signatures[i + 1] \o ":" \o ToString(i)
           word_index == U64Rem(hash_to_seed(entropy), total_count(dict))
           words == all_words(dict)
           kw == [word |-> words[word_index + 1],
                  slot |-> block.slot,
                  blockhash |-> block.blockhash,
                  block_time |-> block.block_time,
                  word_index |-> word_index,
                  source |-> "TransactionRoot"]
       IN  SignatureKeywords_NoUniqueTest(dict, block, Append(keywords, kw), i + 1, n)

\* the loop over the first n sample signatures, from the i-th on (i counts
\* from 0 as enumerate() does); the loop is only reached after the primary
\* derivation has returned, that is with word_count > 0
SignatureKeywords(dict, block, keywords, i, n) ==
  IF i >= n THEN keywords
  ELSE LET entropy == block.sample_signatures[i + 1] \o ":" \o ToString(i)
           word_index == U64Rem(hash_to_seed(entropy), total_count(dict))
           words == all_words(dict)
           unique == /\ word_index + 1 \in DOMAIN words
                     /\ \A k \in DOMAIN keywords :
                          keywords[k].word # words[word_index + 1]
           kw == [word |-> words[word_index + 1],
                  slot |-> block.slot,
                  blockhash |-> block.blockhash,
                  block_time |-> block.block_time,
                  word_index |-> word_index,
                  source |-> "TransactionRoot"]
       IN  SignatureKeywords(dict, block,
                             IF unique THEN Append(keywords, kw) ELSE keywords,
                             i + 1, n)

Min(a, b) == IF a < b THEN a ELSE b

\* mutant: every sample signature is used
derive_multiple_keywords_NoTake(dict, block) ==
  LET first == derive_keyword_from_source(dict, block, "Blockhash")
      second == derive_keyword_from_source(dict, block, "PreviousBlockhash")
      k1 == IF first.tag = "Ok" THEN <<first.val>> ELSE <<>>
      k2 == IF second.tag = "Ok" /\ (k1 = <<>> \/ k1[1].word # second.val.word)
              THEN Append(k1, second.val) ELSE k1
  IN  IF first.tag = "Panic" THEN first
      ELSE Ok(SignatureKeywords(dict, block, k2, 0, Len(block.sample_signatures)))

\* returns the Vec (Ok), or unwinds with the panic of the first derivation
derive_multiple_keywords(dict, block) ==
  LET first == derive_keyword_from_source(dict, block, "Blockhash")
      second == derive_keyword_from_source(dict, block, "PreviousBlockhash")
      k1 == IF first.tag = "Ok" THEN <<first.val>> ELSE <<>>
      k2 == IF second.tag = "Ok" /\ (k1 = <<>> \/ k1[1].word # second.val.word)
              THEN Append(k1, second.val) ELSE k1
  IN  IF first.tag = "Panic" THEN first
      ELSE Ok(SignatureKeywords(dict, block, k2, 0,
                                Min(SampleTake, Len(block.sample_signatures))))

(***************************************************************************)
(* database.rs: the store.  A Database value is the content of the file:   *)
(* the keywords table, the poems table and the connection's                *)
(* last_insert_rowid.  Timestamps are [date, tod] pairs.                    *)
(***************************************************************************)
\* schema: created_at defaults to the current timestamp
DefaultCreatedAt(clock) == clock
\* schema: id is the rowid; rows are never deleted, so the next id is count + 1
NextRowId(rows) == Len(rows) + 1
\* SQL DATE(created_at)
DateOf(created_at) == created_at.date
\* Utc::now().format("%Y-%m-%d")
today(clock) == clock.date

CreatedBefore(a, b) ==
  \/ a.created_at.date < b.created_at.date
  \/ a.created_at.date = b.created_at.date /\ a.created_at.tod < b.created_at.tod

\* ORDER BY created_at ASC over a scan in rowid order (rows of equal
\* created_at stay in rowid order): the place of a row is the number of
\* rows that come before it, plus one
OrderByCreatedAsc(rows) ==
  LET ComesBefore(j, i) ==
        \/ CreatedBefore(rows[j], rows[i])
        \/ ~CreatedBefore(rows[i], rows[j]) /\ j < i
      place == [i \in DOMAIN rows |->
                  Cardinality({j \in DOMAIN rows : ComesBefore(j, i)}) + 1]
  IN  [k \in DOMAIN rows |-> rows[CHOOSE i \in DOMAIN rows : place[i] = k]]

Where(rows, P(_)) == SelectSeq(rows, P)

SlotTaken(d, slot) == \E i \in DOMAIN d.keywords : d.keywords[i].slot = slot
DateTaken(d, date) == \E i \in DOMAIN d.poems : d.poems[i].date = date

\* serde_json::to_string(&[i64]) / serde_json::from_str::<Vec<i64>>
to_json(ids) == [json_array |-> ids]
from_json(text) ==
  IF "json_array" \in DOMAIN text THEN Ok(text.json_array) ELSE Err("json")

KeywordRow(d, keyword, created_at) ==
  [id |-> NextRowId(d.keywords),
   word |-> keyword.word,
   slot |-> keyword.slot,
   blockhash |-> keyword.blockhash,
   block_time |-> keyword.block_time,
   word_index |-> keyword.word_index,
   created_at |-> created_at]

\* mutant: ON CONFLICT(slot) DO UPDATE, the stored row takes the new values
InsertKeywordRow_Upserts(d, keyword, created_at, fault) ==
  IF fault THEN [db |-> d, ret |-> Err("database")]
  ELSE IF SlotTaken(d, keyword.slot)
         THEN LET i == CHOOSE j \in DOMAIN d.keywords : d.keywords[j].slot = keyword.slot
              IN  [db |-> [d EXCEPT !.keywords[i].word = keyword.word,
                                    !.keywords[i].blockhash = keyword.blockhash,
                                    !.keywords[i].word_index = keyword.word_index],
                   ret |-> Ok(d.last_insert_rowid)]
         ELSE LET row == KeywordRow(d, keyword, created_at)
              IN  [db |-> [d EXCEPT !.keywords = Append(@, row),
                                    !.last_insert_rowid = row.id],
                   ret |-> Ok(row.id)]

\* INSERT INTO keywords ... ON CONFLICT(slot) DO NOTHING
InsertKeywordRow(d, keyword, created_at, fault) ==
  IF fault THEN [db |-> d, ret |-> Err("database")]
  ELSE IF SlotTaken(d, keyword.slot)
         THEN [db |-> d, ret |-> Ok(d.last_insert_rowid)]
         ELSE LET row == KeywordRow(d, keyword, created_at)
              IN  [db |-> [d EXCEPT !.keywords = Append(@, row),
                                    !.last_insert_rowid = row.id],
                   ret |-> Ok(row.id)]

\* mutant: a plain INSERT, the uniqueness violation reaches the caller
insert_keyword_NoConflictClause(d, keyword, clock, fault) ==
  IF ~fault /\ SlotTaken(d, keyword.slot)
    THEN [db |-> d, ret |-> Err("UNIQUE constraint failed: keywords.slot")]
    ELSE InsertKeywordRow(d, keyword, DefaultCreatedAt(clock), fault)

insert_keyword(d, keyword, clock, fault) ==
  InsertKeywordRow(d, keyword, DefaultCreatedAt(clock), fault)

insert_keyword_with_date(d, keyword, date, fault) ==
  InsertKeywordRow(d, keyword, [date |-> date, tod |-> Noon], fault)

\* ORDER BY created_at DESC over a scan in rowid order
OrderByCreatedDesc(rows) ==
  LET ComesBefore(j, i) ==
        \/ CreatedBefore(rows[i], rows[j])
        \/ ~CreatedBefore(rows[j], rows[i]) /\ j < i
      place == [i \in DOMAIN rows |->
                  Cardinality({j \in DOMAIN rows : ComesBefore(j, i)}) + 1]
  IN  [k \in DOMAIN rows |-> rows[CHOOSE i \in DOMAIN rows : place[i] = k]]

\* SELECT ... FROM keywords ORDER BY created_at DESC LIMIT ?, the limit an
\* i64; the engine puts no upper bound on the rows when the LIMIT value is
\* negative
get_recent_keywords(d, limit, fault) ==
  IF fault THEN Err("database")
  ELSE LET sorted == OrderByCreatedDesc(d.keywords)
           n == IF limit < 0 THEN Len(sorted) ELSE Min(limit, Len(sorted))
       IN  Ok(SubSeq(sorted, 1, n))

\* mutant: the query without ORDER BY, rows come in rowid order
get_keywords_for_date_Unordered(d, date, fault) ==
  IF fault THEN Err("database")
  ELSE LET OnDate(r) == DateOf(r.created_at) = date
       IN  Ok(Where(d.keywords, OnDate))

get_keywords_for_date(d, date, fault) ==
  IF fault THEN Err("database")
  ELSE LET OnDate(r) == DateOf(r.created_at) = date
       IN  Ok(OrderByCreatedAsc(Where(d.keywords, OnDate)))

\* mutant: no conflict target, every call adds a row
insert_poem_AlwaysAppends(d, date, title, content, keyword_ids, clock, fault) ==
  IF fault THEN [db |-> d, ret |-> Err("database")]
  ELSE LET row == [id |-> NextRowId(d.poems),
                   date |-> date,
                   title |-> title,
                   content |-> content,
                   keyword_ids |-> to_json(keyword_ids),
                   created_at |-> DefaultCreatedAt(clock)]
       IN  [db |-> [d EXCEPT !.poems = Append(@, row), !.last_insert_rowid = row.id],
            ret |-> Ok(row.id)]

\* mutant: the update keeps the old title when the new one is NULL
insert_poem_KeepsTitle(d, date, title, content, keyword_ids, clock, fault) ==
  IF fault THEN [db |-> d, ret |-> Err("database")]
  ELSE IF DateTaken(d, date)
         THEN LET i == CHOOSE j \in DOMAIN d.poems : d.poems[j].date = date
              IN  [db |-> [d EXCEPT !.poems[i].title = IF title = None THEN @ ELSE title,
                                    !.poems[i].content = content,
                                    !.poems[i].keyword_ids = to_json(keyword_ids)],
                   ret |-> Ok(d.last_insert_rowid)]
         ELSE insert_poem_AlwaysAppends(d, date, title, content, keyword_ids, clock, fault)

\* INSERT INTO poems ... ON CONFLICT(date) DO UPDATE SET title, content, keyword_ids
insert_poem(d, date, title, content, keyword_ids, clock, fault) ==
  IF fault THEN [db |-> d, ret |-> Err("database")]
  ELSE IF DateTaken(d, date)
         THEN LET i == CHOOSE j \in DOMAIN d.poems : d.poems[j].date = date
              IN  [db |-> [d EXCEPT !.poems[i].title = title,
                                    !.poems[i].content = content,
                                    !.poems[i].keyword_ids = to_json(keyword_ids)],
                   ret |-> Ok(d.last_insert_rowid)]
         ELSE LET row == [id |-> NextRowId(d.poems),
                          date |-> date,
                          title |-> title,
                          content |-> content,
                          keyword_ids |-> to_json(keyword_ids),
                          created_at |-> DefaultCreatedAt(clock)]
              IN  [db |-> [d EXCEPT !.poems = Append(@, row),
                                    !.last_insert_rowid = row.id],
                   ret |-> Ok(row.id)]

StoredPoem(row, ids) ==
  [id |-> row.id, date |-> row.date, title |-> row.title, content |-> row.content,
   keyword_ids |-> ids, created_at |-> row.created_at]

get_poem_by_date(d, date, fault) ==
  IF fault THEN Err("database")
  ELSE LET OnDate(r) == r.date = date
           rows == Where(d.poems, OnDate)
       IN  IF rows = <<>> THEN Ok(None)
           ELSE LET ids == from_json(rows[1].keyword_ids)
                IN  IF ids.tag = "Ok" THEN Ok(Some(StoredPoem(rows[1], ids.val)))
                    ELSE ids

(***************************************************************************)
(* poem_generator.rs                                                       *)
(***************************************************************************)
\* What the generation endpoint can answer to one request.
Responses ==
  {[kind |-> "send_error"],
   [kind |-> "status_error"],
   [kind |-> "body", choices |-> <<>>],
   [kind |-> "body", choices |-> <<"poemA">>],
   [kind |-> "body", choices |-> <<"poemB", "poemA">>]}

\* keywords.join(", ") embedded in the fixed template
create_prompt(keywords) == [template |-> "poem-20-30-lines", keywords_str |-> keywords]

try_generate_poem(keywords, response) ==
  LET prompt == create_prompt(keywords)
  IN  CASE response.kind = "send_error" -> Err("request failed")
        [] response.kind = "status_error" -> Err("OpenRouter API error")
        [] response.kind = "body" ->
             IF response.choices = <<>> THEN Err("No choices in response")
             ELSE Ok(response.choices[1])

\* mutant: the backoff is one power late (4, 8 seconds)
delay_secs_OnePowerLate(attempt) == Pow(BackoffBase, attempt + 1)

delay_secs(attempt) == Pow(BackoffBase, attempt)

\* state of one generate_poem call: the caller's future
GenIdle ==
  [pc |-> "idle", keywords |-> <<>>, attempt |-> 0, last_error |-> None,
   slept |-> 0, delay |-> 0, log |-> <<>>, result |-> None]

\* head of `for attempt in 0..max_retries`, and the line after the loop
LoopHead(g) ==
  IF g.attempt < max_retries
    THEN IF g.attempt > 0 THEN [g EXCEPT !.pc = "sleep"] ELSE [g EXCEPT !.pc = "try"]
    ELSE [g EXCEPT !.pc = "done",
                   !.result = Some(Err(IF IsSome(g.last_error) THEN g.last_error[1]
                                       ELSE "Failed after attempts"))]

\* mutant: a successful attempt does not end the loop
AfterAttempt_Continues(g, r) ==
  LoopHead([g EXCEPT !.last_error = IF r.tag = "Ok" THEN @ ELSE Some(r.err),
                     !.result = IF r.tag = "Ok" THEN Some(r) ELSE @,
                     !.attempt = @ + 1])

\* mutant: only the first error is kept
AfterAttempt_KeepsFirstError(g, r) ==
  IF r.tag = "Ok"
    THEN [g EXCEPT !.pc = "done", !.result = Some(r)]
    ELSE LoopHead([g EXCEPT !.last_error = IF IsSome(@) THEN @ ELSE Some(r.err),
                            !.attempt = @ + 1])

\* mutant: a non-success status ends generate_poem at once
AfterAttempt_StatusIsFatal(g, r) ==
  IF r.tag = "Ok"
    THEN [g EXCEPT !.pc = "done", !.result = Some(r)]
    ELSE IF r.err = "OpenRouter API error"
           THEN [g EXCEPT !.pc = "done", !.result = Some(r), !.last_error = Some(r.err)]
           ELSE LoopHead([g EXCEPT !.last_error = Some(r.err), !.attempt = @ + 1])

\* the match on the attempt's result
AfterAttempt(g, r) ==
  IF r.tag = "Ok"
    THEN [g EXCEPT !.pc = "done", !.result = Some(r)]
    ELSE LoopHead([g EXCEPT !.last_error = Some(r.err), !.attempt = @ + 1])

generate_poem(keywords) == LoopHead([GenIdle EXCEPT !.keywords = keywords])

(***************************************************************************)
(* State.                                                                  *)
(***************************************************************************)
Callers == {"scheduler", "backfill", "client"}

VARIABLES
  dictionary,     \* the WordDictionary the process loaded
  now,            \* the UTC wall clock, [date, tod]
  chainSlot,      \* the slot of the most recent confirmed block
  db,             \* the store: [keywords, poems, last_insert_rowid]
  pc,             \* where the scheduler loop of start() stands
  local,          \* locals of maybe_generate_daily_poem: today, keywords
  collectResult,  \* what collect_keyword returned in this tick
  poemResult,     \* what maybe_generate_daily_poem returned in this tick
  tickGen,        \* what generate_poem returned to the scheduler in this tick
  tickPoems,      \* the poems table when this tick's poem phase began
  tickOps,        \* this tick so far: the keywords table at its start, the
                  \* block it fetched, its fetches, inserts and generate_poem calls
  gen,            \* the generate_poem call of each caller
  bf,             \* the backfill tool: its position and locals
  call            \* the last call a client of the library made, with its result

vars ==
  <<dictionary, now, chainSlot, db, pc, local, collectResult, poemResult,
    tickGen, tickPoems, tickOps, gen, bf, call>>
envVars == <<now, chainSlot>>
schedVars == <<pc, local, collectResult, poemResult, tickGen, tickPoems, tickOps>>

\* rows that earlier runs left in the store file: collected by the scheduler
\* at the start of the first day, but for the second one, which a backfill
\* wrote with the day's pinned creation time
InitKeyword(s) ==
  LET k == derive_keyword(SmallDictionary, BlockAt(s)).val
  IN  [id |-> s, word |-> k.word, slot |-> k.slot, blockhash |-> k.blockhash,
       block_time |-> k.block_time, word_index |-> k.word_index,
       created_at |-> [date |-> 0, tod |-> IF s = 2 THEN Noon ELSE 0]]
InitDb ==
  [keywords |-> [s \in 1..InitRows |-> InitKeyword(s)],
   poems |-> <<>>,
   last_insert_rowid |-> 0]

NoLocal == [today |-> 0, keywords |-> <<>>]
NoOps(d) ==
  [keywords |-> d.keywords, block |-> None, fetches |-> 0, inserts |-> 0, generations |-> 0]
BfIdle == [pc |-> "exit", date |-> 0, keywords |-> <<>>]
NoCall == [op |-> "none"]

Init ==
  /\ dictionary \in Dictionaries
  /\ now = [date |-> 0, tod |-> 0]
  /\ chainSlot = InitRows
  /\ db = InitDb
  /\ pc = "idle"
  /\ local = NoLocal
  /\ collectResult = "none"
  /\ poemResult = "none"
  /\ tickGen = "none"
  /\ tickPoems = <<>>
  /\ tickOps = NoOps(db)
  /\ gen = [c \in Callers |-> GenIdle]
  /\ bf = BfIdle
  /\ call = NoCall

(***************************************************************************)
(* The environment: time passes, the chain grows.                          *)
(***************************************************************************)
AdvanceClock ==
  /\ \/ now.tod < MaxTod /\ now' = [now EXCEPT !.tod = @ + 1]
     \/ now.tod = MaxTod /\ now.date < MaxDay /\ now' = [date |-> now.date + 1, tod |-> 0]
  /\ UNCHANGED <<dictionary, chainSlot, db, schedVars, gen, bf, call>>

ChainAdvance ==
  /\ chainSlot < MaxSlot
  /\ chainSlot' = chainSlot + 1
  /\ UNCHANGED <<dictionary, now, db, schedVars, gen, bf, call>>

\* SolanaClient::get_latest_block: the block, or a transport error
LatestBlocks == {Err("rpc"), Ok(BlockAt(chainSlot))}

(***************************************************************************)
(* The generation client at work for caller c.                             *)
(***************************************************************************)
GenSleep(c) ==
  /\ gen[c].pc = "sleep"
  /\ LET d == delay_secs(gen[c].attempt)
     IN  gen' = [gen EXCEPT ![c].pc = "try", ![c].slept = @ + d, ![c].delay = d]
  /\ UNCHANGED <<dictionary, envVars, db, schedVars, bf, call>>

GenTry(c) ==
  /\ gen[c].pc = "try"
  /\ \E response \in Responses :
       LET g == gen[c]
           r == try_generate_poem(g.keywords, response)
           logged == [g EXCEPT !.log = Append(@, [response |-> response, delay |-> g.delay]),
                               !.delay = 0]
       IN  gen' = [gen EXCEPT ![c] = AfterAttempt(logged, r)]
  /\ UNCHANGED <<dictionary, envVars, db, schedVars, bf, call>>

(***************************************************************************)
(* scheduler.rs: the loop of start().                                      *)
(***************************************************************************)
\* mutant: a failed fetch falls back to the block after the last stored one
collect_keyword_FallsBack(d, dict, clock, fetched, fault) ==
  LET block == IF fetched.tag = "Ok" THEN fetched.val ELSE BlockAt(Len(d.keywords))
      keyword == derive_keyword(dict, block)
  IN  IF keyword.tag # "Ok" THEN [db |-> d, ret |-> keyword]
      ELSE LET ins == insert_keyword(d, keyword.val, clock, fault)
           IN  IF ins.ret.tag = "Ok" /\ fetched.tag = "Ok" THEN [db |-> ins.db, ret |-> Ok("unit")]
               ELSE IF ins.ret.tag = "Ok" THEN [db |-> ins.db, ret |-> Err("Solana RPC error")]
               ELSE [db |-> ins.db, ret |-> Err("Database error")]

\* collect_keyword, given what the block fetch and the store do
collect_keyword(d, dict, clock, fetched, fault) ==
  IF fetched.tag # "Ok" THEN [db |-> d, ret |-> Err("Solana RPC error")]
  ELSE LET keyword == derive_keyword(dict, fetched.val)
       IN  IF keyword.tag # "Ok" THEN [db |-> d, ret |-> keyword]
           ELSE LET ins == insert_keyword(d, keyword.val, clock, fault)
                IN  IF ins.ret.tag = "Ok" THEN [db |-> ins.db, ret |-> Ok("unit")]
                    ELSE [db |-> ins.db, ret |-> Err("Database error")]

\* mutant: the timer starts a tick while generate_poem of the previous
\* tick is still running
Tick_WhileBusy ==
  /\ pc \in {"idle", "generate"}
  /\ pc' = "collect"
  /\ collectResult' = "none"
  /\ poemResult' = "none"
  /\ tickGen' = "none"
  /\ tickOps' = NoOps(db)
  /\ UNCHANGED <<dictionary, envVars, db, local, tickPoems, gen, bf, call>>

\* interval.tick().await returns
Tick ==
  /\ pc = "idle"
  /\ pc' = "collect"
  /\ collectResult' = "none"
  /\ poemResult' = "none"
  /\ tickGen' = "none"
  /\ tickOps' = NoOps(db)
  /\ UNCHANGED <<dictionary, envVars, db, local, tickPoems, gen, bf, call>>

ResultName(r) == CASE r.tag = "Ok" -> "ok" [] r.tag = "Err" -> "err" [] r.tag = "Panic" -> "panic"

\* match self.collect_keyword().await
SchedCollect ==
  /\ pc = "collect"
  /\ \E fetched \in LatestBlocks, fault \in BOOLEAN :
       LET r == collect_keyword(db, dictionary, now, fetched, fault)
       IN  /\ db' = r.db
           /\ collectResult' = ResultName(r.ret)
           /\ pc' = IF r.ret.tag = "Panic" THEN "panicked" ELSE "poem_check"
           /\ tickOps' =
                [tickOps EXCEPT
                   !.fetches = @ + 1,
                   !.block = IF fetched.tag = "Ok" THEN Some(fetched.val) ELSE None,
                   !.inserts = IF fetched.tag = "Ok"
                                  /\ derive_keyword(dictionary, fetched.val).tag = "Ok"
                                 THEN @ + 1 ELSE @]
  /\ UNCHANGED <<dictionary, envVars, local, poemResult, tickGen, tickPoems, gen, bf, call>>

\* mutant: only a poem with a title ends the poem phase
SchedPoemCheck_SkipsTitled ==
  /\ pc = "poem_check"
  /\ tickPoems' = db.poems
  /\ \E fault \in BOOLEAN :
       LET day == today(now)
           found == get_poem_by_date(db, day, fault)
       IN  IF found.tag # "Ok"
             THEN /\ poemResult' = "err" /\ pc' = "idle" /\ local' = NoLocal
             ELSE IF IsSome(found.val) /\ IsSome(found.val[1].title)
                    THEN /\ poemResult' = "ok" /\ pc' = "idle" /\ local' = NoLocal
                    ELSE /\ poemResult' = poemResult
                         /\ pc' = "poem_keywords"
                         /\ local' = [today |-> day, keywords |-> <<>>]
  /\ UNCHANGED <<dictionary, envVars, db, collectResult, tickGen, tickOps, gen, bf, call>>

\* mutant: the existence check does not end the poem phase
SchedPoemCheck_NoSkip ==
  /\ pc = "poem_check"
  /\ tickPoems' = db.poems
  /\ \E fault \in BOOLEAN :
       LET day == today(now)
           found == get_poem_by_date(db, day, fault)
       IN  IF found.tag # "Ok"
             THEN /\ poemResult' = "err" /\ pc' = "idle" /\ local' = NoLocal
             ELSE /\ poemResult' = poemResult
                  /\ pc' = "poem_keywords"
                  /\ local' = [today |-> day, keywords |-> <<>>]
  /\ UNCHANGED <<dictionary, envVars, db, collectResult, tickGen, tickOps, gen, bf, call>>

\* maybe_generate_daily_poem up to the existence check
SchedPoemCheck ==
  /\ pc = "poem_check"
  /\ tickPoems' = db.poems
  /\ \E fault \in BOOLEAN :
       LET day == today(now)
           found == get_poem_by_date(db, day, fault)
       IN  IF found.tag # "Ok"
             THEN /\ poemResult' = "err" /\ pc' = "idle" /\ local' = NoLocal
             ELSE IF IsSome(found.val)
                    THEN /\ poemResult' = "ok" /\ pc' = "idle" /\ local' = NoLocal
                    ELSE /\ poemResult' = poemResult
                         /\ pc' = "poem_keywords"
                         /\ local' = [today |-> day, keywords |-> <<>>]
  /\ UNCHANGED <<dictionary, envVars, db, collectResult, tickGen, tickOps, gen, bf, call>>

\* mutant: the threshold is one too low
SchedPoemKeywords_OneBelow ==
  /\ pc = "poem_keywords"
  /\ \E fault \in BOOLEAN :
       LET got == get_keywords_for_date(db, local.today, fault)
       IN  IF got.tag # "Ok"
             THEN /\ poemResult' = "err" /\ pc' = "idle" /\ local' = NoLocal /\ gen' = gen
             ELSE IF Len(got.val) < MIN_KEYWORDS_FOR_POEM - 1
                    THEN /\ poemResult' = "ok" /\ pc' = "idle" /\ local' = NoLocal
                         /\ gen' = gen
                    ELSE /\ poemResult' = poemResult
                         /\ pc' = "generate"
                         /\ local' = [local EXCEPT !.keywords = got.val]
                         /\ gen' = [gen EXCEPT !["scheduler"] =
                                      generate_poem([i \in DOMAIN got.val |-> got.val[i].word])]
  /\ tickOps' = IF pc' = "generate" THEN [tickOps EXCEPT !.generations = @ + 1] ELSE tickOps
  /\ UNCHANGED <<dictionary, envVars, db, collectResult, tickGen, tickPoems, bf, call>>

\* mutant: the threshold is tested on the keywords the tick started with
SchedPoemKeywords_BeforeInsert ==
  /\ pc = "poem_keywords"
  /\ \E fault \in BOOLEAN :
       LET got == get_keywords_for_date([db EXCEPT !.keywords = tickOps.keywords],
                                        local.today, fault)
       IN  IF got.tag # "Ok"
             THEN /\ poemResult' = "err" /\ pc' = "idle" /\ local' = NoLocal /\ gen' = gen
             ELSE IF Len(got.val) < MIN_KEYWORDS_FOR_POEM
                    THEN /\ poemResult' = "ok" /\ pc' = "idle" /\ local' = NoLocal
                         /\ gen' = gen
                    ELSE /\ poemResult' = poemResult
                         /\ pc' = "generate"
                         /\ local' = [local EXCEPT !.keywords = got.val]
                         /\ gen' = [gen EXCEPT !["scheduler"] =
                                      generate_poem([i \in DOMAIN got.val |-> got.val[i].word])]
  /\ tickOps' = IF pc' = "generate" THEN [tickOps EXCEPT !.generations = @ + 1] ELSE tickOps
  /\ UNCHANGED <<dictionary, envVars, db, collectResult, tickGen, tickPoems, bf, call>>

\* ... the keyword query, the threshold and the call of generate_poem
SchedPoemKeywords ==
  /\ pc = "poem_keywords"
  /\ \E fault \in BOOLEAN :
       LET got == get_keywords_for_date(db, local.today, fault)
       IN  IF got.tag # "Ok"
             THEN /\ poemResult' = "err" /\ pc' = "idle" /\ local' = NoLocal /\ gen' = gen
             ELSE IF Len(got.val) < MIN_KEYWORDS_FOR_POEM
                    THEN /\ poemResult' = "ok" /\ pc' = "idle" /\ local' = NoLocal
                         /\ gen' = gen
                    ELSE /\ poemResult' = poemResult
                         /\ pc' = "generate"
                         /\ local' = [local EXCEPT !.keywords = got.val]
                         /\ gen' = [gen EXCEPT !["scheduler"] =
                                      generate_poem([i \in DOMAIN got.val |-> got.val[i].word])]
  /\ tickOps' = IF pc' = "generate" THEN [tickOps EXCEPT !.generations = @ + 1] ELSE tickOps
  /\ UNCHANGED <<dictionary, envVars, db, collectResult, tickGen, tickPoems, bf, call>>

\* mutant: a failed generation or upsert restores the keywords table of
\* the start of the tick
SchedAfterGenerate_RollsBack ==
  /\ pc = "generate"
  /\ gen["scheduler"].pc = "done"
  /\ LET r == gen["scheduler"].result[1]
     IN  IF r.tag = "Ok"
           THEN \E fault \in BOOLEAN :
                  LET keyword_ids == [i \in DOMAIN local.keywords |-> local.keywords[i].id]
                      ins == insert_poem(db, local.today, None, r.val, keyword_ids, now, fault)
                  IN  /\ db' = IF ins.ret.tag = "Ok" THEN ins.db
                               ELSE [ins.db EXCEPT !.keywords = tickOps.keywords]
                      /\ poemResult' = IF ins.ret.tag = "Ok" THEN "ok" ELSE "err"
                      /\ tickGen' = "ok"
           ELSE /\ db' = [db EXCEPT !.keywords = tickOps.keywords]
                /\ poemResult' = "ok"
                /\ tickGen' = "err"
  /\ pc' = "idle"
  /\ local' = NoLocal
  /\ gen' = [gen EXCEPT !["scheduler"] = GenIdle]
  /\ UNCHANGED <<dictionary, envVars, collectResult, tickPoems, tickOps, bf, call>>

\* mutant: the poem lists the dictionary index of each keyword, not its id
SchedAfterGenerate_IndexAsId ==
  /\ pc = "generate"
  /\ gen["scheduler"].pc = "done"
  /\ LET r == gen["scheduler"].result[1]
     IN  IF r.tag = "Ok"
           THEN \E fault \in BOOLEAN :
                  LET keyword_ids == [i \in DOMAIN local.keywords |-> local.keywords[i].word_index]
                      ins == insert_poem(db, local.today, None, r.val, keyword_ids, now, fault)
                  IN  /\ db' = ins.db
                      /\ poemResult' = IF ins.ret.tag = "Ok" THEN "ok" ELSE "err"
                      /\ tickGen' = "ok"
           ELSE /\ db' = db
                /\ poemResult' = "ok"
                /\ tickGen' = "err"
  /\ pc' = "idle"
  /\ local' = NoLocal
  /\ gen' = [gen EXCEPT !["scheduler"] = GenIdle]
  /\ UNCHANGED <<dictionary, envVars, collectResult, tickPoems, tickOps, bf, call>>

\* mutant: the date of the poem is read again when the poem is stored
SchedAfterGenerate_RereadsToday ==
  /\ pc = "generate"
  /\ gen["scheduler"].pc = "done"
  /\ LET r == gen["scheduler"].result[1]
     IN  IF r.tag = "Ok"
           THEN \E fault \in BOOLEAN :
                  LET keyword_ids == [i \in DOMAIN local.keywords |-> local.keywords[i].id]
                      ins == insert_poem(db, today(now), None, r.val, keyword_ids, now, fault)
                  IN  /\ db' = ins.db
                      /\ poemResult' = IF ins.ret.tag = "Ok" THEN "ok" ELSE "err"
                      /\ tickGen' = "ok"
           ELSE /\ db' = db
                /\ poemResult' = "ok"
                /\ tickGen' = "err"
  /\ pc' = "idle"
  /\ local' = NoLocal
  /\ gen' = [gen EXCEPT !["scheduler"] = GenIdle]
  /\ UNCHANGED <<dictionary, envVars, collectResult, tickPoems, tickOps, bf, call>>

\* ... the match on generate_poem's result
SchedAfterGenerate ==
  /\ pc = "generate"
  /\ gen["scheduler"].pc = "done"
  /\ LET r == gen["scheduler"].result[1]
     IN  IF r.tag = "Ok"
           THEN \E fault \in BOOLEAN :
                  LET keyword_ids == [i \in DOMAIN local.keywords |-> local.keywords[i].id]
                      ins == insert_poem(db, local.today, None, r.val, keyword_ids, now, fault)
                  IN  /\ db' = ins.db
                      /\ poemResult' = IF ins.ret.tag = "Ok" THEN "ok" ELSE "err"
                      /\ tickGen' = "ok"
           ELSE /\ db' = db
                /\ poemResult' = "ok"
                /\ tickGen' = "err"
  /\ pc' = "idle"
  /\ local' = NoLocal
  /\ gen' = [gen EXCEPT !["scheduler"] = GenIdle]
  /\ UNCHANGED <<dictionary, envVars, collectResult, tickPoems, tickOps, bf, call>>

Scheduler ==
  \/ Tick
  \/ SchedCollect
  \/ SchedPoemCheck
  \/ SchedPoemKeywords
  \/ SchedAfterGenerate
  \/ GenSleep("scheduler")
  \/ GenTry("scheduler")

Next ==
  \/ AdvanceClock
  \/ ChainAdvance
  \/ Scheduler

Spec == Init /\ [][Next]_vars

(***************************************************************************)
(* bin/backfill.rs: the tool that generates the poem of one given date,    *)
(* run as its own process against the same store file.                     *)
(***************************************************************************)
\* the tool is started with a date argument
BfStart ==
  /\ bf.pc = "exit"
  /\ \E date \in 0..MaxDay : bf' = [pc |-> "keywords", date |-> date, keywords |-> <<>>]
  /\ UNCHANGED <<dictionary, envVars, db, schedVars, gen, call>>

\* db.get_keywords_for_date(date) and the is_empty return
BfKeywords ==
  /\ bf.pc = "keywords"
  /\ \E fault \in BOOLEAN :
       LET got == get_keywords_for_date(db, bf.date, fault)
       IN  IF got.tag # "Ok" \/ got.val = <<>>
             THEN bf' = BfIdle
             ELSE bf' = [bf EXCEPT !.pc = "poem_check", !.keywords = got.val]
  /\ UNCHANGED <<dictionary, envVars, db, schedVars, gen, call>>

\* the existence check, then the call of generate_poem
BfPoemCheck ==
  /\ bf.pc = "poem_check"
  /\ \E fault \in BOOLEAN :
       LET found == get_poem_by_date(db, bf.date, fault)
       IN  IF found.tag # "Ok" \/ IsSome(found.val)
             THEN bf' = BfIdle /\ gen' = gen
             ELSE /\ bf' = [bf EXCEPT !.pc = "generate"]
                  /\ gen' = [gen EXCEPT !["backfill"] =
                               generate_poem([i \in DOMAIN bf.keywords |-> bf.keywords[i].word])]
  /\ UNCHANGED <<dictionary, envVars, db, schedVars, call>>

\* the match on generate_poem's result; the tool writes through its own
\* connection, so the scheduler's last_insert_rowid is not touched
BfAfterGenerate ==
  /\ bf.pc = "generate"
  /\ gen["backfill"].pc = "done"
  /\ LET r == gen["backfill"].result[1]
     IN  IF r.tag = "Ok"
           THEN \E fault \in BOOLEAN :
                  LET keyword_ids == [i \in DOMAIN bf.keywords |-> bf.keywords[i].id]
                      ins == insert_poem(db, bf.date, None, r.val, keyword_ids, now, fault)
                  IN  db' = [ins.db EXCEPT !.last_insert_rowid = db.last_insert_rowid]
           ELSE db' = db
  /\ bf' = BfIdle
  /\ gen' = [gen EXCEPT !["backfill"] = GenIdle]
  /\ UNCHANGED <<dictionary, envVars, schedVars, call>>

Backfill ==
  \/ BfStart
  \/ BfKeywords
  \/ BfPoemCheck
  \/ BfAfterGenerate
  \/ GenSleep("backfill")
  \/ GenTry("backfill")

\* the scheduler and the tool run side by side while the chain grows; the
\* runs looked at are short against the day, the clock stands still
NextRace ==
  \/ ChainAdvance
  \/ Scheduler
  \/ Backfill

\* the scheduler and the backfill tool on one store
SpecRace == Init /\ [][NextRace]_vars

(***************************************************************************)
(* A client of the library: it calls the public operations of Database     *)
(* and runs the collection step, one call at a time, with any arguments.   *)
(***************************************************************************)
\* the last stored slot and the two after it, and a block of another fork
\* at the first new slot
ClientBlocks ==
  {BlockAt(s) : s \in {InitRows, InitRows + 1, InitRows + 2}}
    \cup {[BlockAt(InitRows + 1) EXCEPT !.blockhash = HashAt(InitRows + 2)]}
ClientKeywords == {derive_keyword(SmallDictionary, b).val : b \in ClientBlocks}

ClientInsertKeyword ==
  /\ \E keyword \in ClientKeywords, fault \in BOOLEAN :
       LET r == insert_keyword(db, keyword, now, fault)
       IN  /\ db' = r.db
           /\ call' = [op |-> "insert_keyword", slot |-> keyword.slot,
                       blockhash |-> keyword.blockhash,
                       existed |-> SlotTaken(db, keyword.slot), fault |-> fault,
                       ret |-> r.ret, rows_before |-> Len(db.keywords)]
  /\ UNCHANGED <<dictionary, envVars, schedVars, gen, bf>>

ClientInsertKeywordWithDate ==
  /\ \E keyword \in ClientKeywords, date \in 0..MaxDay, fault \in BOOLEAN :
       LET r == insert_keyword_with_date(db, keyword, date, fault)
       IN  /\ db' = r.db
           /\ call' = [op |-> "insert_keyword_with_date", slot |-> keyword.slot,
                       blockhash |-> keyword.blockhash,
                       existed |-> SlotTaken(db, keyword.slot), fault |-> fault,
                       ret |-> r.ret, rows_before |-> Len(db.keywords)]
  /\ UNCHANGED <<dictionary, envVars, schedVars, gen, bf>>

\* one run of collect_keyword on whatever block the node serves
ClientCollect ==
  /\ \E fetched \in {Err("rpc")} \cup {Ok(b) : b \in ClientBlocks}, fault \in BOOLEAN :
       LET r == collect_keyword(db, dictionary, now, fetched, fault)
           reached == fetched.tag = "Ok" /\ derive_keyword(dictionary, fetched.val).tag = "Ok"
       IN  /\ db' = r.db
           /\ call' = [op |-> "collect_keyword",
                       slot |-> IF fetched.tag = "Ok" THEN fetched.val.slot ELSE 0,
                       blockhash |-> IF fetched.tag = "Ok" THEN fetched.val.blockhash ELSE "",
                       existed |-> reached /\ SlotTaken(db, fetched.val.slot),
                       fault |-> fault,
                       ret |-> r.ret, rows_before |-> Len(db.keywords)]
  /\ UNCHANGED <<dictionary, envVars, schedVars, gen, bf>>

NextDb ==
  \/ AdvanceClock
  \/ ClientInsertKeyword
  \/ ClientInsertKeywordWithDate
  \/ ClientCollect

\* any sequence of keyword writes on one store
SpecDb == Init /\ [][NextDb]_vars

PoemTitles == {None, Some("dawn")}
PoemContents == {"poemA", "poemB"}
PoemIdLists == {<<1>>, <<2, 3>>}
PoemDays == {0, 1}

ClientInsertPoem ==
  /\ \E date \in PoemDays, title \in PoemTitles, content \in PoemContents,
        keyword_ids \in PoemIdLists, fault \in BOOLEAN :
       LET r == insert_poem(db, date, title, content, keyword_ids, now, fault)
           old == IF DateTaken(db, date)
                    THEN CHOOSE row \in {db.poems[i] : i \in DOMAIN db.poems} : row.date = date
                    ELSE [title |-> title, content |-> content,
                          keyword_ids |-> to_json(keyword_ids)]
       IN  /\ db' = r.db
           /\ call' = [op |-> "insert_poem", date |-> date, title |-> title,
                       content |-> content, keyword_ids |-> keyword_ids,
                       existed |-> DateTaken(db, date),
                       replaced |-> /\ old.title # title
                                    /\ old.content # content
                                    /\ old.keyword_ids # to_json(keyword_ids),
                       fault |-> fault, ret |-> r.ret, rows_before |-> Len(db.poems)]
  /\ UNCHANGED <<dictionary, envVars, schedVars, gen, bf>>

NextPoems == ClientInsertPoem

\* any sequence of poem upserts on one store
SpecPoems == Init /\ [][NextPoems]_vars

(***************************************************************************)
(* Properties of the scheduler loop and of the generation client.          *)
(***************************************************************************)
PoemOn(d, date) == CHOOSE r \in {d.poems[i] : i \in DOMAIN d.poems} : r.date = date
PoemDates(d) == {d.poems[i].date : i \in DOMAIN d.poems}

\* the attempt got a usable answer
Succeeds(response) == response.kind = "body" /\ response.choices # <<>>
AllFailed(g) == \A k \in DOMAIN g.log : ~Succeeds(g.log[k].response)

\* C3: with the scheduler as the only writer, a poem row that exists for a
\* date keeps its title, content and keyword-id list in every later step.
C3_StoredPoemNeverChanges ==
  [][\A date \in PoemDates(db) :
       /\ date \in PoemDates(db')
       /\ PoemOn(db', date).title = PoemOn(db, date).title
       /\ PoemOn(db', date).content = PoemOn(db, date).content
       /\ PoemOn(db', date).keyword_ids = PoemOn(db, date).keyword_ids]_vars

\* a later tick runs its existence check while today's poem is stored
C3_Witness == pc = "poem_check" /\ today(now) \in PoemDates(db)

\* C6: the loop of start() never ends, whatever a step of a tick returns.
C6_LoopNeverEnds == pc # "panicked"

\* C7: after a failed keyword collection the same tick still runs the poem
\* check, and after a failed poem phase the next tick can start.
C7_PhasesIsolated ==
  /\ collectResult \in {"err", "panic"} =>
       \/ pc \in {"poem_check", "poem_keywords", "generate"}
       \/ pc = "idle" /\ poemResult # "none"
  /\ (pc = "idle" /\ poemResult = "err") => ENABLED Tick

\* C8: a generate_poem call makes at most 3 attempts, none after the first
\* successful one, and returns the content of that attempt.
C8_AtMostThreeAttempts ==
  \A c \in Callers :
    LET g == gen[c]
    IN  /\ Len(g.log) <= 3
        /\ \A k \in DOMAIN g.log :
             Succeeds(g.log[k].response) =>
               /\ k = Len(g.log)
               /\ g.pc = "done"
               /\ g.result = Some(Ok(g.log[k].response.choices[1]))

\* a call that succeeded at its second attempt
C8_Witness ==
  \E c \in Callers :
    gen[c].pc = "done" /\ Len(gen[c].log) = 2 /\ Succeeds(gen[c].log[2].response)

\* C9: the sleeps before the attempts are 0, 2 and 4 seconds and are over
\* when the attempt starts; fail, fail, success is 3 calls, 6 seconds slept
\* and the successful content.
C9_Backoff ==
  \A c \in Callers :
    LET g == gen[c]
    IN  /\ \A k \in DOMAIN g.log :
             g.log[k].delay = CASE k = 1 -> 0 [] k = 2 -> 2 [] k = 3 -> 4 [] OTHER -> -1
        /\ g.pc = "try" =>
             g.slept = CASE g.attempt = 0 -> 0 [] g.attempt = 1 -> 2 [] OTHER -> 6
        /\ g.pc = "sleep" => g.attempt > 0
        /\ ( /\ g.pc = "done"
             /\ Len(g.log) >= 3
             /\ ~Succeeds(g.log[1].response)
             /\ ~Succeeds(g.log[2].response)
             /\ Succeeds(g.log[3].response) ) =>
               /\ Len(g.log) = 3
               /\ g.slept = 6
               /\ g.result = Some(Ok(g.log[3].response.choices[1]))

\* a call that failed twice and then succeeded
C9_Witness ==
  \E c \in Callers :
    /\ gen[c].pc = "done"
    /\ Len(gen[c].log) = 3
    /\ ~Succeeds(gen[c].log[1].response)
    /\ ~Succeeds(gen[c].log[2].response)
    /\ Succeeds(gen[c].log[3].response)

\* C10: when every attempt fails, generate_poem makes exactly 3 calls and
\* returns the third attempt's error, and the tick creates no poem row.
C10_ExhaustedRetries ==
  /\ \A c \in Callers :
       LET g == gen[c]
       IN  (g.pc = "done" /\ AllFailed(g)) =>
             /\ Len(g.log) = 3
             /\ g.result = Some(Err(CASE g.log[3].response.kind = "send_error" -> "request failed"
                                      [] g.log[3].response.kind = "status_error" -> "OpenRouter API error"
                                      [] OTHER -> "No choices in response"))
  /\ (pc = "idle" /\ tickGen = "err") => db.poems = tickPoems

\* a tick has ended after generate_poem failed with differing errors
C10_Witness ==
  /\ pc = "idle"
  /\ tickGen = "err"
  /\ poemResult = "ok"

\* C4: among writers that check, generate and then insert, a stored poem
\* is never replaced by different content.
C4_NoStaleOverwrite ==
  [][\A date \in PoemDates(db) :
       date \in PoemDates(db') /\ PoemOn(db', date).content = PoemOn(db, date).content]_vars

\* C1: the keywords table never holds two rows with one slot; an insert of
\* a slot that is already stored returns Ok and adds no row, and so does a
\* collection step whose insert meets such a slot.
C1_OneKeywordPerSlot ==
  /\ \A i, j \in DOMAIN db.keywords :
       db.keywords[i].slot = db.keywords[j].slot => i = j
  /\ ( /\ call.op \in {"insert_keyword", "insert_keyword_with_date", "collect_keyword"}
       /\ call.existed
       /\ ~call.fault ) =>
         /\ call.ret.tag = "Ok"
         /\ Len(db.keywords) = call.rows_before

\* a collection step met a slot that was already stored
C1_Witness ==
  /\ call.op = "collect_keyword"
  /\ call.existed
  /\ call.ret.tag = "Ok"
  /\ \E i \in DOMAIN db.keywords :
       db.keywords[i].slot = call.slot /\ db.keywords[i].created_at.tod = Noon

\* C2: the poems table never holds two rows with one date.
C2_OnePoemPerDate ==
  /\ \A i, j \in DOMAIN db.poems :
       db.poems[i].date = db.poems[j].date => i = j
  /\ (call.op = "insert_poem" /\ call.existed) => Len(db.poems) = call.rows_before

\* an upsert met a date that already had a poem
C2_Witness == call.op = "insert_poem" /\ call.existed /\ call.ret.tag = "Ok"

\* C5: after insert_poem on a date that has a poem, the row of that date
\* holds exactly the title, content and keyword ids of the call.
C5_UpsertReplaces ==
  (call.op = "insert_poem" /\ call.existed /\ call.ret.tag = "Ok") =>
    /\ Len(db.poems) = call.rows_before
    /\ \E i \in DOMAIN db.poems :
         /\ db.poems[i].date = call.date
         /\ db.poems[i].title = call.title
         /\ db.poems[i].content = call.content
         /\ db.poems[i].keyword_ids = to_json(call.keyword_ids)
         /\ from_json(db.poems[i].keyword_ids) = Ok(call.keyword_ids)

\* an upsert replaced a row whose title, content and ids all differed
C5_Witness ==
  call.op = "insert_poem" /\ call.existed /\ call.ret.tag = "Ok" /\ call.replaced

(***************************************************************************)
(* The scheduler loop as the runtime drives it: the task is polled again   *)
(* and again, and neither the store nor the generation endpoint fails      *)
(* forever.                                                                *)
(***************************************************************************)
\* the process starts on a store file that holds InitRows keywords of the
\* first day, or one more
InitLive ==
  \E more \in {0, 1} :
    /\ dictionary \in Dictionaries
    /\ now = [date |-> 0, tod |-> 0]
    /\ chainSlot = InitRows + more
    /\ db = [InitDb EXCEPT !.keywords =
               [s \in 1..(InitRows + more) |-> InitKeyword(s)]]
    /\ pc = "idle"
    /\ local = NoLocal
    /\ collectResult = "none"
    /\ poemResult = "none"
    /\ tickGen = "none"
    /\ tickPoems = <<>>
    /\ tickOps = NoOps(db)
    /\ gen = [c \in Callers |-> GenIdle]
    /\ bf = BfIdle
    /\ call = NoCall

\* an attempt of the scheduler's generate_poem call gets a usable answer
GenTrySucceeds ==
  /\ GenTry("scheduler")
  /\ gen'["scheduler"].pc = "done"
  /\ gen'["scheduler"].result[1].tag = "Ok"

\* a step of the poem phase in which the store answers
PoemCheckAnswered == SchedPoemCheck /\ poemResult' # "err"
PoemKeywordsAnswered == SchedPoemKeywords /\ poemResult' # "err"
PoemStored == SchedAfterGenerate /\ tickGen' = "ok" /\ poemResult' = "ok"

Fairness ==
  /\ WF_vars(Scheduler)
  /\ SF_vars(GenTrySucceeds)
  /\ SF_vars(PoemCheckAnswered)
  /\ SF_vars(PoemKeywordsAnswered)
  /\ SF_vars(PoemStored)

SpecLive == InitLive /\ [][Next]_vars /\ Fairness

\* rows of the keywords table created on a date
KeywordsOn(d, date) == get_keywords_for_date(d, date, FALSE).val

\* C11: when today's keyword count has reached the threshold and today has
\* no poem, a poem for today is eventually stored unless the date changes
\* first, however many ticks fail at generation before.
C11_RetryStoresPoem ==
  \A date \in 0..MaxDay :
    ( /\ today(now) = date
      /\ Len(KeywordsOn(db, date)) >= MIN_KEYWORDS_FOR_POEM
      /\ date \notin PoemDates(db) )
      ~> (date \in PoemDates(db) \/ today(now) # date)

(***************************************************************************)
(* Properties of the poem phase.                                           *)
(***************************************************************************)
\* ids of the keyword rows created on a date, and the row of an id
IdsOn(d, date) ==
  {d.keywords[i].id : i \in {j \in DOMAIN d.keywords : DateOf(d.keywords[j].created_at) = date}}
RowOfId(d, id) == CHOOSE row \in {d.keywords[i] : i \in DOMAIN d.keywords} : row.id = id

\* ids lists every keyword of the date once, earliest creation time first
AllOfDateAscending(d, date, ids) ==
  /\ {ids[k] : k \in DOMAIN ids} = IdsOn(d, date)
  /\ Len(ids) = Cardinality(IdsOn(d, date))
  /\ \A k, l \in DOMAIN ids :
       k < l => ~CreatedBefore(RowOfId(d, ids[l]), RowOfId(d, ids[k]))

\* C12: with exactly MIN_KEYWORDS_FOR_POEM keywords of today and no poem, the
\* poem phase calls generation with the words of all of today's keywords in
\* ascending creation-time order, and a successful tick adds exactly one
\* poem row for today whose keyword_ids are their ids in that order.
C12_PoemFromAllKeywords ==
  [][ /\ ( /\ pc = "poem_keywords"
           /\ pc' # pc
           /\ poemResult' # "err"
           /\ Cardinality(IdsOn(db, local.today)) = MIN_KEYWORDS_FOR_POEM )
         => pc' = "generate"
      /\ (pc = "poem_keywords" /\ pc' = "generate") =>
           LET ids == [k \in DOMAIN local'.keywords |-> local'.keywords[k].id]
               words == gen'["scheduler"].keywords
           IN  /\ AllOfDateAscending(db, local.today, ids)
               /\ Len(words) = Len(ids)
               /\ \A k \in DOMAIN ids : words[k] = RowOfId(db, ids[k]).word
      /\ (pc = "generate" /\ pc' = "idle" /\ tickGen' = "ok" /\ poemResult' = "ok") =>
           /\ local.today \notin PoemDates(db)
           /\ Len(db'.poems) = Len(db.poems) + 1
           /\ Cardinality({i \in DOMAIN db'.poems : db'.poems[i].date = local.today}) = 1
           /\ LET ids == from_json(PoemOn(db', local.today).keyword_ids)
              IN  /\ ids.tag = "Ok"
                  /\ AllOfDateAscending(db', local.today, ids.val)
                  /\ ids.val = [k \in DOMAIN local.keywords |-> local.keywords[k].id]
    ]_vars

\* a tick stored today's poem from exactly MIN_KEYWORDS_FOR_POEM keywords
\* whose creation order is not their id order
C12_Witness ==
  /\ pc = "idle"
  /\ tickGen = "ok"
  /\ poemResult = "ok"
  /\ \E i \in DOMAIN db.poems :
       LET ids == from_json(db.poems[i].keyword_ids).val
       IN  /\ Len(ids) = MIN_KEYWORDS_FOR_POEM
           /\ Cardinality(IdsOn(db, db.poems[i].date)) = MIN_KEYWORDS_FOR_POEM
           /\ \E k \in DOMAIN ids : k < Len(ids) /\ ids[k] > ids[k + 1]

\* C13: when today has a poem at the start of the poem phase, the phase ends
\* at the existence check: no keyword query, no generation call, the poems
\* table as it was; so a generation call of the scheduler is only ever
\* under way for a date without a poem.
C13_SkipWhenPoemExists ==
  [][ /\ (pc = "poem_check" /\ pc' # pc /\ today(now) \in PoemDates(db)) =>
           /\ pc' = "idle"
           /\ local' = NoLocal
           /\ gen' = gen
           /\ db' = db
      /\ (pc' \in {"poem_keywords", "generate"} \/ gen'["scheduler"].pc # "idle") =>
           local'.today \notin PoemDates(db')
    ]_vars

\* a tick ended at the existence check: today's poem was there, no
\* generation result, the poems table as at the start of the phase
C13_Witness ==
  /\ pc = "idle"
  /\ collectResult # "none"
  /\ poemResult = "ok"
  /\ tickGen = "none"
  /\ db.poems = tickPoems
  /\ today(now) \in PoemDates(db)
  /\ gen["scheduler"] = GenIdle

\* C14: the scheduler's generation call is only under way, and a poem of
\* the scheduler only stored, for a date with at least MIN_KEYWORDS_FOR_POEM
\* keywords; every stored poem lists at least that many keyword ids.
C14_ThresholdGate ==
  /\ (pc = "generate" \/ gen["scheduler"].pc # "idle") =>
       /\ Cardinality(IdsOn(db, local.today)) >= MIN_KEYWORDS_FOR_POEM
       /\ Len(gen["scheduler"].keywords) >= MIN_KEYWORDS_FOR_POEM
  /\ \A i \in DOMAIN db.poems :
       /\ Cardinality(IdsOn(db, db.poems[i].date)) >= MIN_KEYWORDS_FOR_POEM
       /\ from_json(db.poems[i].keyword_ids).tag = "Ok"
       /\ Len(from_json(db.poems[i].keyword_ids).val) >= MIN_KEYWORDS_FOR_POEM

\* a tick ended its poem phase at the threshold test, one keyword short
C14_Witness ==
  /\ pc = "idle"
  /\ poemResult = "ok"
  /\ tickGen = "none"
  /\ today(now) \notin PoemDates(db)
  /\ now.tod = 0
  /\ Cardinality(IdsOn(db, today(now))) = MIN_KEYWORDS_FOR_POEM - 1

(***************************************************************************)
(* Properties of the keywords table.                                       *)
(***************************************************************************)
\* C20: no step changes or removes a stored keyword row: every row keeps
\* its id, word, slot, hash, block time, word index and creation time.
C20_KeywordRowsImmutable ==
  [][\A i \in DOMAIN db.keywords :
       /\ i \in DOMAIN db'.keywords
       /\ db'.keywords[i] = db.keywords[i]]_vars

\* an insert met a stored slot with a block of another fork, and the row
\* still holds the hash it was stored with
C20_Witness ==
  /\ call.op \in {"insert_keyword", "insert_keyword_with_date"}
  /\ call.existed
  /\ call.ret.tag = "Ok"
  /\ \E i \in DOMAIN db.keywords :
       db.keywords[i].slot = call.slot /\ db.keywords[i].blockhash # call.blockhash

(***************************************************************************)
(* A client of the derivation engine: it builds a KeywordDerivation on a   *)
(* dictionary and derives from blocks of any shape, call after call.       *)
(***************************************************************************)
\* dictionaries of every size from 0 to 5, two of them of size 3
DeriveDictionaries ==
  {EmptyDictionary,
   [nouns |-> <<"moon">>, verbs |-> <<>>, adjectives |-> <<>>],
   [nouns |-> <<"moon">>, verbs |-> <<"drift">>, adjectives |-> <<>>],
   [nouns |-> <<"moon", "river">>, verbs |-> <<"drift">>, adjectives |-> <<>>],
   [nouns |-> <<>>, verbs |-> <<"drift">>, adjectives |-> <<"pale", "silent">>],
   [nouns |-> <<"moon", "river">>, verbs |-> <<"drift">>, adjectives |-> <<"pale">>],
   SmallDictionary}

\* get_block_sync keeps at most the first 5 signatures of a block
MaxSampleSignatures == 5

DeriveSlots == {8, 9}
DeriveBlock(s, sigs, height) ==
  [BlockAt(s) EXCEPT !.sample_signatures = sigs,
                     !.transaction_count = Len(sigs),
                     !.block_height = height]

\* blocks for the single-source derivation
SourceBlocks ==
  {DeriveBlock(s, sigs, IF known THEN Some(s) ELSE None) :
     s \in DeriveSlots,
     sigs \in {<<>>, <<"sig1">>, <<"sig1", "sig2", "sig3">>},
     known \in BOOLEAN}

\* blocks for derive_multiple_keywords: every list of sample signatures
SignatureLists == UNION {[1..n -> {"sig1", "sig3"}] : n \in 0..MaxSampleSignatures}
SampleBlocks == {DeriveBlock(s, sigs, Some(s)) : s \in DeriveSlots, sigs \in SignatureLists}

InitDerive ==
  /\ dictionary \in DeriveDictionaries
  /\ now = [date |-> 0, tod |-> 0]
  /\ chainSlot = InitRows
  /\ db = InitDb
  /\ pc = "idle"
  /\ local = NoLocal
  /\ collectResult = "none"
  /\ poemResult = "none"
  /\ tickGen = "none"
  /\ tickPoems = <<>>
  /\ tickOps = NoOps(db)
  /\ gen = [c \in Callers |-> GenIdle]
  /\ bf = BfIdle
  /\ call = NoCall

\* derive_keyword_from_source; the record keeps what the call before it
\* derived from which entropy
ClientDerive ==
  /\ \E block \in SourceBlocks, source \in BlockDataSources :
       LET r == derive_keyword_from_source(dictionary, block, source)
       IN  call' = [op |-> "derive", block |-> block, source |-> source,
                    entropy |-> get_entropy_for_source(block, source),
                    ret |-> r,
                    prev |-> IF call.op = "derive" /\ call.ret.tag = "Ok"
                               THEN Some([entropy |-> call.entropy,
                                          slot |-> call.block.slot,
                                          word_index |-> call.ret.val.word_index,
                                          word |-> call.ret.val.word])
                               ELSE None]
  /\ UNCHANGED <<dictionary, envVars, db, schedVars, gen, bf>>

ClientDeriveMultiple ==
  /\ \E block \in SampleBlocks :
       call' = [op |-> "derive_multiple", block |-> block,
                ret |-> derive_multiple_keywords(dictionary, block)]
  /\ UNCHANGED <<dictionary, envVars, db, schedVars, gen, bf>>

NextDerive == ClientDerive

\* any sequence of single-source derivations on one instance
SpecDerive == InitDerive /\ [][NextDerive]_vars

NextSamples == ClientDeriveMultiple

\* any sequence of derive_multiple_keywords calls on one instance
SpecSamples == InitDerive /\ [][NextSamples]_vars

(***************************************************************************)
(* Properties of the derivation engine.                                    *)
(***************************************************************************)
\* C15: two derivations from the same entropy on the same dictionary give
\* the same index and the same word, whatever else the blocks hold.
C15_Deterministic ==
  ( /\ call.op = "derive"
    /\ call.ret.tag = "Ok"
    /\ IsSome(call.prev)
    /\ call.prev[1].entropy = call.entropy ) =>
      /\ call.ret.val.word_index = call.prev[1].word_index
      /\ call.ret.val.word = call.prev[1].word

\* the same entropy came from the blocks of two slots, with a dictionary
\* of more than one word
C15_Witness ==
  /\ call.op = "derive"
  /\ call.ret.tag = "Ok"
  /\ IsSome(call.prev)
  /\ call.prev[1].entropy = call.entropy
  /\ call.prev[1].slot # call.block.slot
  /\ total_count(dictionary) > 1

\* 256^e mod n
RECURSIVE PowMod256(_, _)
PowMod256(e, n) == IF e = 0 THEN 1 % n ELSE (256 * PowMod256(e - 1, n)) % n
\* (sum of bytes[i] * 256^(i-1)) mod n: the bytes as a little-endian integer
RECURSIVE LittleEndianRem(_, _, _)
LittleEndianRem(bytes, i, n) ==
  IF i = 0 THEN 0
  ELSE (LittleEndianRem(bytes, i - 1, n) + bytes[i] * PowMod256(i - 1, n)) % n
\* the word at a 0-based index of nouns ++ verbs ++ adjectives
WordAt(dict, index) ==
  IF index < Len(dict.nouns) THEN dict.nouns[index + 1]
  ELSE IF index < Len(dict.nouns) + Len(dict.verbs)
         THEN dict.verbs[index - Len(dict.nouns) + 1]
         ELSE dict.adjectives[index - Len(dict.nouns) - Len(dict.verbs) + 1]

\* C16: with a dictionary of N >= 1 words the derived index is the first 8
\* digest bytes, read as a little-endian unsigned integer, mod N; it lies
\* in 0..N-1 and the word is the one at that index of nouns ++ verbs ++
\* adjectives.
C16_IndexIsSeedModN ==
  (call.op = "derive" /\ total_count(dictionary) >= 1) =>
    /\ call.ret.tag = "Ok"
    /\ call.ret.val.word_index =
         LittleEndianRem(Sha256First8(call.entropy), 8, total_count(dictionary))
    /\ call.ret.val.word_index >= 0
    /\ call.ret.val.word_index < total_count(dictionary)
    /\ call.ret.val.word = WordAt(dictionary, call.ret.val.word_index)

\* a derivation on the dictionary of 5 words gave an adjective
C16_Witness ==
  /\ call.op = "derive"
  /\ dictionary = SmallDictionary
  /\ call.ret.tag = "Ok"
  /\ call.ret.val.word_index >= 3
  /\ call.source \in {"TransactionRoot", "Rewards", "TransactionCount"}

\* C17: with an empty dictionary a derivation returns an error value.
C17_EmptyDictionaryIsError ==
  (call.op = "derive" /\ total_count(dictionary) = 0) => call.ret.tag = "Err"

\* C18: for a block with sample signatures and a non-empty dictionary,
\* derive_multiple_keywords returns between 1 and 5 keywords, no word twice.
C18_MultipleDistinctUpToFive ==
  ( /\ call.op = "derive_multiple"
    /\ call.block.sample_signatures # <<>>
    /\ total_count(dictionary) >= 1 ) =>
      /\ call.ret.tag = "Ok"
      /\ Len(call.ret.val) >= 1
      /\ Len(call.ret.val) <= 5
      /\ \A k, l \in DOMAIN call.ret.val :
           call.ret.val[k].word = call.ret.val[l].word => k = l

\* a call returned 5 keywords
C18_Witness ==
  /\ call.op = "derive_multiple"
  /\ call.ret.tag = "Ok"
  /\ Len(call.ret.val) = 5

\* the word a dictionary holds for an entropy string
WordOf(dict, entropy) ==
  WordAt(dict, LittleEndianRem(Sha256First8(entropy), 8, total_count(dict)))

\* the words derive_multiple_keywords considers, in its order: primary
\* hash, previous hash, then the first 3 sample signatures with their
\* 0-based position appended
CandidateWords(dict, block) ==
  <<WordOf(dict, block.blockhash), WordOf(dict, block.previous_blockhash)>> \o
    [i \in 1..Min(3, Len(block.sample_signatures)) |->
       WordOf(dict, block.sample_signatures[i] \o ":" \o ToString(i - 1))]

\* C19: the list holds the candidate words in their order, each at its
\* first occurrence only: the primary word first, the previous-hash word
\* if it differs, then the words of the first 3 sample signatures not yet
\* in the list; signatures after the third change nothing.
C19_MultipleOrder ==
  (call.op = "derive_multiple" /\ total_count(dictionary) >= 1) =>
    LET cand == CandidateWords(dictionary, call.block)
        words == [k \in DOMAIN call.ret.val |-> call.ret.val[k].word]
        First(w) == CHOOSE i \in DOMAIN cand :
                      cand[i] = w /\ \A j \in 1..(i - 1) : cand[j] # w
        sigs == call.block.sample_signatures
        first3 == [call.block EXCEPT !.sample_signatures = SubSeq(sigs, 1, Min(3, Len(sigs)))]
    IN  /\ call.ret.tag = "Ok"
        /\ words[1] = cand[1]
        /\ {words[k] : k \in DOMAIN words} = {cand[i] : i \in DOMAIN cand}
        /\ \A k, l \in DOMAIN words : k < l => First(words[k]) < First(words[l])
        /\ \A k \in DOMAIN words :
             /\ call.ret.val[k].slot = call.block.slot
             /\ call.ret.val[k].source =
                  CASE First(words[k]) = 1 -> "Blockhash"
                    [] First(words[k]) = 2 -> "PreviousBlockhash"
                    [] OTHER -> "TransactionRoot"
        /\ call.ret = derive_multiple_keywords(dictionary, first3)

\* a call on a block with more than 3 sample signatures left out a
\* candidate it already had and took a later one
C19_Witness ==
  /\ call.op = "derive_multiple"
  /\ call.ret.tag = "Ok"
  /\ Len(call.block.sample_signatures) > 3
  /\ Len(call.ret.val) \in {3, 4}
  /\ call.ret.val[2].source = "TransactionRoot"
  /\ call.ret.val[Len(call.ret.val)].source = "TransactionRoot"

(***************************************************************************)
(* Properties of one tick of the scheduler loop.                           *)
(***************************************************************************)
\* the row this tick's insert added: the tick began without the slot of
\* the block it fetched, and its collection step returned Ok
TickAddedRow ==
  /\ collectResult = "ok"
  /\ IsSome(tickOps.block)
  /\ \A i \in DOMAIN tickOps.keywords : tickOps.keywords[i].slot # tickOps.block[1].slot

\* C21: a keyword row a tick has inserted stays in the store through the
\* rest of the tick, whatever later step of the tick fails.
C21_InsertedKeywordStays ==
  TickAddedRow =>
    /\ Len(db.keywords) = Len(tickOps.keywords) + 1
    /\ SubSeq(db.keywords, 1, Len(tickOps.keywords)) = tickOps.keywords
    /\ db.keywords[Len(db.keywords)].slot = tickOps.block[1].slot
    /\ db.keywords[Len(db.keywords)].blockhash = tickOps.block[1].blockhash

\* a tick inserted a keyword, generated a poem and failed to store it
C21_Witness ==
  /\ TickAddedRow
  /\ pc = "idle"
  /\ tickGen = "ok"
  /\ poemResult = "err"

\* a step on which interval.tick().await returns
TickStarts == pc' = "collect" /\ pc # "collect"

\* C22: a tick starts only when the previous tick has finished its
\* collection and its poem phase (no generate_poem in flight, no locals of
\* the poem phase alive), and one tick makes at most one block fetch, one
\* keyword insert and one generate_poem invocation.
C22_TicksDoNotOverlap ==
  /\ [](/\ tickOps.fetches <= 1
        /\ tickOps.inserts <= tickOps.fetches
        /\ tickOps.generations <= 1
        /\ (pc = "collect") = (tickOps.fetches = 0 /\ collectResult = "none" /\ pc # "idle")
        /\ (gen["scheduler"].pc # "idle") => (pc = "generate" /\ tickOps.generations = 1))
  /\ [][TickStarts => /\ pc = "idle"
                      /\ gen["scheduler"] = GenIdle
                      /\ local = NoLocal
                      /\ tickOps'.fetches = 0 /\ tickOps'.inserts = 0
                      /\ tickOps'.generations = 0]_vars

\* a tick that followed an inserting tick has fetched a block, inserted a
\* keyword and invoked generate_poem, once each, and has finished
C22_Witness ==
  /\ pc = "idle"
  /\ tickOps.fetches = 1
  /\ tickOps.inserts = 1
  /\ tickOps.generations = 1
  /\ Len(db.keywords) > InitRows + 1

\* the block fetch of the running tick has failed
FetchFailed == tickOps.fetches = 1 /\ tickOps.block = None

\* C23: a tick whose block fetch failed derives and inserts nothing: its
\* collection step returns an error and the keywords table is the one the
\* tick started with.
C23_FailedFetchInsertsNothing ==
  FetchFailed =>
    /\ collectResult = "err"
    /\ tickOps.inserts = 0
    /\ db.keywords = tickOps.keywords

\* the collection phase of a tick has ended on a failed fetch, with a new
\* block on the chain that the store does not hold
C23_Witness ==
  /\ FetchFailed
  /\ pc = "poem_check"
  /\ \A i \in DOMAIN db.keywords : db.keywords[i].slot # chainSlot

\* the running tick fetched a block whose derivation does not yield a word
DerivationFailed ==
  /\ tickOps.fetches = 1
  /\ IsSome(tickOps.block)
  /\ derive_keyword(dictionary, tickOps.block[1]).tag # "Ok"

\* C24: a tick whose derivation fails its validation reports an error of
\* the collection step, goes on to the poem phase of the same tick, and is
\* followed by the next tick.
C24_DerivationFailureSurfaced ==
  DerivationFailed =>
    /\ collectResult = "err"
    /\ pc \in {"poem_check", "poem_keywords", "generate", "idle"}
    /\ pc = "idle" => (poemResult # "none" /\ ENABLED Tick)

(***************************************************************************)
(* Properties of the attempts of generate_poem.                            *)
(***************************************************************************)
\* the error one failed attempt leaves behind
AttemptError(response) ==
  CASE response.kind = "send_error" -> "request failed"
    [] response.kind = "status_error" -> "OpenRouter API error"
    [] OTHER -> "No choices in response"

\* C25: an attempt that ends with a non-success status, with an empty
\* choices list or with a failed request is recorded as the failure of
\* that attempt; while fewer than 3 attempts were made the next attempt
\* follows, and generate_poem returns an error only after the third.
C25_FailedAttemptRetries ==
  /\ [](\A c \in Callers :
          LET g == gen[c]
          IN  /\ (g.pc = "done" /\ g.result[1].tag = "Err") => Len(g.log) = max_retries
              /\ (g.pc \in {"sleep", "try"} /\ g.log # <<>>) =>
                    /\ g.attempt = Len(g.log)
                    /\ g.result = None
                    /\ \A k \in DOMAIN g.log : ~Succeeds(g.log[k].response)
                    /\ g.last_error = Some(AttemptError(g.log[Len(g.log)].response)))
  /\ [][\A c \in Callers :
          (gen[c].pc = "try" /\ gen'[c] # gen[c]) =>
            LET g == gen'[c]
                made == Len(g.log)
            IN  /\ made = Len(gen[c].log) + 1
                /\ ~Succeeds(g.log[made].response) =>
                     IF made < max_retries
                       THEN g.pc = "sleep" /\ g.attempt = made /\ g.result = None
                       ELSE g.pc = "done"
                            /\ g.result = Some(Err(AttemptError(g.log[made].response)))]_vars

\* a call whose three attempts failed in the three ways, each one followed
\* by the next
C25_Witness ==
  \E c \in Callers :
    /\ gen[c].pc = "done"
    /\ Len(gen[c].log) = max_retries
    /\ gen[c].log[1].response.kind = "status_error"
    /\ gen[c].log[2].response = [kind |-> "body", choices |-> <<>>]
    /\ gen[c].log[3].response.kind = "send_error"

(***************************************************************************)
(* api.rs: the HTTP handlers, served from the same process and the same    *)
(* store as the scheduler loop.                                            *)
(***************************************************************************)
\* SELECT ... FROM poems ORDER BY date DESC, a row whose keyword_ids does
\* not parse gets the empty list (unwrap_or_default)
get_all_poems(d, fault) ==
  IF fault THEN Err("database")
  ELSE LET rows == d.poems
           ComesBefore(j, i) == \/ rows[j].date > rows[i].date
                                \/ rows[j].date = rows[i].date /\ j < i
           place == [i \in DOMAIN rows |->
                       Cardinality({j \in DOMAIN rows : ComesBefore(j, i)}) + 1]
           sorted == [k \in DOMAIN rows |-> rows[CHOOSE i \in DOMAIN rows : place[i] = k]]
           Ids(row) == LET ids == from_json(row.keyword_ids)
                       IN  IF ids.tag = "Ok" THEN ids.val ELSE <<>>
       IN  Ok([k \in DOMAIN sorted |-> StoredPoem(sorted[k], Ids(sorted[k]))])

\* keywords_needed: 15
keywords_needed == 15

OK200 == 200
NOT_FOUND == 404
INTERNAL_SERVER_ERROR == 500

Response(status, body) == [status |-> status, body |-> body]

\* Json(ErrorResponse { error })
ErrorResponse(e) == [error |-> e]

\* the response of a handler that returns the rows of one query, a JSON
\* array
RowsResponse(r) ==
  IF r.tag = "Ok" THEN Response(OK200, [array |-> r.val])
  ELSE Response(INTERNAL_SERVER_ERROR, ErrorResponse(r.err))

\* GET /health
health_check ==
  /\ call.op # "get_today_running"
  /\ call' = [op |-> "health_check",
              response |-> Response(OK200, [status |-> "ok", service |-> "chain_verse",
                                            timestamp |-> now])]
  /\ UNCHANGED <<dictionary, envVars, db, schedVars, gen, bf>>

\* GET /api/poems
ApiGetAllPoems ==
  /\ call.op # "get_today_running"
  /\ \E fault \in BOOLEAN :
       call' = [op |-> "get_all_poems", response |-> RowsResponse(get_all_poems(db, fault))]
  /\ UNCHANGED <<dictionary, envVars, db, schedVars, gen, bf>>

\* GET /api/poems/today, up to its first query: the date and the keywords
\* of the date; the handler is then suspended on its second query
get_today ==
  /\ call.op # "get_today_running"
  /\ \E fault \in BOOLEAN :
       LET day == today(now)
           keywords == get_keywords_for_date(db, day, fault)
       IN  call' = IF keywords.tag # "Ok"
                     THEN [op |-> "get_today",
                           response |-> Response(INTERNAL_SERVER_ERROR,
                                                 ErrorResponse(keywords.err))]
                     ELSE [op |-> "get_today_running", today |-> day,
                           keywords |-> keywords.val]
  /\ UNCHANGED <<dictionary, envVars, db, schedVars, gen, bf>>

\* mutant: the status request stores an empty poem for a day that has none
get_today_poem_CreatesPoem ==
  /\ call.op = "get_today_running"
  /\ \E fault \in BOOLEAN :
       LET poem == get_poem_by_date(db, call.today, fault)
       IN  /\ call' = [op |-> "get_today",
                       response |->
                         IF poem.tag # "Ok"
                           THEN Response(INTERNAL_SERVER_ERROR, ErrorResponse(poem.err))
                           ELSE Response(OK200,
                                         [date |-> call.today,
                                          keywords_collected |-> Len(call.keywords),
                                          keywords_needed |-> keywords_needed,
                                          poem_ready |-> IsSome(poem.val),
                                          keywords |-> call.keywords,
                                          poem |-> poem.val])]
           /\ db' = IF poem.tag = "Ok" /\ ~IsSome(poem.val)
                      THEN insert_poem(db, call.today, None, "", <<>>, now, FALSE).db
                      ELSE db
  /\ UNCHANGED <<dictionary, envVars, schedVars, gen, bf>>

\* ... its second query, the poem of the date, and the response
get_today_poem ==
  /\ call.op = "get_today_running"
  /\ \E fault \in BOOLEAN :
       LET poem == get_poem_by_date(db, call.today, fault)
       IN  call' = [op |-> "get_today",
                    response |->
                      IF poem.tag # "Ok"
                        THEN Response(INTERNAL_SERVER_ERROR, ErrorResponse(poem.err))
                        ELSE Response(OK200,
                                      [date |-> call.today,
                                       keywords_collected |-> Len(call.keywords),
                                       keywords_needed |-> keywords_needed,
                                       poem_ready |-> IsSome(poem.val),
                                       keywords |-> call.keywords,
                                       poem |-> poem.val])]
  /\ UNCHANGED <<dictionary, envVars, db, schedVars, gen, bf>>

\* GET /api/poems/{date}
ApiGetPoemByDate ==
  /\ call.op # "get_today_running"
  /\ \E date \in 0..MaxDay, fault \in BOOLEAN :
       LET found == get_poem_by_date(db, date, fault)
       IN  call' = [op |-> "get_poem_by_date",
                    response |->
                      IF found.tag # "Ok" THEN Response(INTERNAL_SERVER_ERROR, ErrorResponse(found.err))
                      ELSE IF IsSome(found.val) THEN Response(OK200, found.val[1])
                      ELSE Response(NOT_FOUND, ErrorResponse("No poem found for date"))]
  /\ UNCHANGED <<dictionary, envVars, db, schedVars, gen, bf>>

\* GET /api/keywords/today
get_today_keywords ==
  /\ call.op # "get_today_running"
  /\ \E fault \in BOOLEAN :
       call' = [op |-> "get_today_keywords",
                response |-> RowsResponse(get_keywords_for_date(db, today(now), fault))]
  /\ UNCHANGED <<dictionary, envVars, db, schedVars, gen, bf>>

\* create_router: the five routes; the model follows one request at a
\* time, the next one is taken when the response of this one is out
Api ==
  \/ health_check
  \/ ApiGetAllPoems
  \/ get_today
  \/ get_today_poem
  \/ ApiGetPoemByDate
  \/ get_today_keywords

\* the process starts when the chain is one block ahead of the store
InitApi ==
  /\ dictionary \in Dictionaries
  /\ now = [date |-> 0, tod |-> 0]
  /\ chainSlot = InitRows + 1
  /\ db = InitDb
  /\ pc = "idle"
  /\ local = NoLocal
  /\ collectResult = "none"
  /\ poemResult = "none"
  /\ tickGen = "none"
  /\ tickPoems = <<>>
  /\ tickOps = NoOps(db)
  /\ gen = [c \in Callers |-> GenIdle]
  /\ bf = BfIdle
  /\ call = NoCall

NextApi ==
  \/ Scheduler
  \/ Api

\* the scheduler loop and the HTTP server of one process
SpecApi == InitApi /\ [][NextApi]_vars

\* C26: a step of a read handler changes neither table nor anything of
\* the scheduler, and every change of the store is made by a step of the
\* scheduler loop (its collection step or the end of its poem phase), so
\* the tables are what the scheduler alone has written.
C26_HandlersOnlyRead ==
  [][/\ call' # call => UNCHANGED <<db, schedVars, gen>>
     /\ db' # db => /\ call' = call
                    /\ pc \in {"collect", "generate"}
                    /\ pc' # pc]_vars

\* the status request is answered while a tick is generating today's poem
\* and after a tick has stored a keyword
C26_Witness ==
  /\ call.op = "get_today"
  /\ call.response.status = OK200
  /\ ~call.response.body.poem_ready
  /\ call.response.body.keywords_collected >= MIN_KEYWORDS_FOR_POEM
  /\ pc = "generate"
  /\ Len(db.keywords) > InitRows

(***************************************************************************)
(* A client that writes keywords and reads them back.                      *)
(***************************************************************************)
QueryDates == 0..(MaxDay + 1)
\* limits below, at and above the number of stored rows
RecentLimits == {-1, 0, 1, 2, InitRows, InitRows + 1, InitRows + 4}

ClientGetKeywordsForDate ==
  /\ \E date \in QueryDates, fault \in BOOLEAN :
       call' = [op |-> "get_keywords_for_date", date |-> date,
                ret |-> get_keywords_for_date(db, date, fault)]
  /\ UNCHANGED <<dictionary, envVars, db, schedVars, gen, bf>>

ClientGetRecentKeywords ==
  /\ \E limit \in RecentLimits, fault \in BOOLEAN :
       call' = [op |-> "get_recent_keywords", limit |-> limit,
                ret |-> get_recent_keywords(db, limit, fault)]
  /\ UNCHANGED <<dictionary, envVars, db, schedVars, gen, bf>>

NextReads ==
  \/ AdvanceClock
  \/ ClientInsertKeyword
  \/ ClientInsertKeywordWithDate
  \/ ClientGetKeywordsForDate
  \/ ClientGetRecentKeywords

SpecReads == Init /\ [][NextReads]_vars

\* the rows of a result are stored rows, each at most once
StoredOnce(d, rows) ==
  /\ \A k \in DOMAIN rows : \E i \in DOMAIN d.keywords : d.keywords[i] = rows[k]
  /\ \A j, k \in DOMAIN rows : rows[j].id = rows[k].id => j = k

\* get_keywords_for_date(date) returned exactly the rows created on date,
\* in ascending creation-time order
KeywordsForDateExact(d, c) ==
  LET rows == c.ret.val
  IN  /\ StoredOnce(d, rows)
      /\ \A k \in DOMAIN rows : DateOf(rows[k].created_at) = c.date
      /\ Len(rows) = Cardinality({i \in DOMAIN d.keywords :
                                    DateOf(d.keywords[i].created_at) = c.date})
      /\ \A j, k \in DOMAIN rows : j < k => ~CreatedBefore(rows[k], rows[j])

\* get_recent_keywords(limit) returned at most limit rows, none older than
\* a row it left out, in descending creation-time order
RecentKeywordsBounded(d, c) ==
  LET rows == c.ret.val
  IN  /\ StoredOnce(d, rows)
      /\ Len(rows) <= c.limit
      /\ Len(rows) < c.limit => Len(rows) = Len(d.keywords)
      /\ \A j, k \in DOMAIN rows : j < k => ~CreatedBefore(rows[j], rows[k])
      /\ \A i \in DOMAIN d.keywords :
           (\A k \in DOMAIN rows : rows[k] # d.keywords[i]) =>
             \A k \in DOMAIN rows : ~CreatedBefore(rows[k], d.keywords[i])

\* C27: get_keywords_for_date(date) returns exactly the rows created on
\* date, ascending by creation time; get_recent_keywords(limit) returns at
\* most limit rows, the most recently created ones, descending by creation
\* time.
C27_KeywordQueries ==
  [][/\ (call'.op = "get_keywords_for_date" /\ call'.ret.tag = "Ok") =>
          KeywordsForDateExact(db, call')
     /\ (call'.op = "get_recent_keywords" /\ call'.ret.tag = "Ok") =>
          RecentKeywordsBounded(db, call')]_vars

(***************************************************************************)
(* A day on which generation kept failing: every tick stored its keyword   *)
(* and no poem, and the process goes on (or is restarted) on that store.   *)
(***************************************************************************)
InitCap ==
  /\ dictionary \in Dictionaries
  /\ now = [date |-> 0, tod |-> 0]
  /\ chainSlot = MAX_KEYWORDS_FOR_POEM + 1
  /\ db = [InitDb EXCEPT !.keywords =
             [s \in 1..MAX_KEYWORDS_FOR_POEM |-> InitKeyword(s)]]
  /\ pc = "idle"
  /\ local = NoLocal
  /\ collectResult = "none"
  /\ poemResult = "none"
  /\ tickGen = "none"
  /\ tickPoems = <<>>
  /\ tickOps = NoOps(db)
  /\ gen = [c \in Callers |-> GenIdle]
  /\ bf = BfIdle
  /\ call = NoCall

NextCap == Scheduler

SpecCap == InitCap /\ [][NextCap]_vars

\* C28: generate_poem is never given more than MAX_KEYWORDS_FOR_POEM words
\* by the scheduler, and no stored poem lists more than
\* MAX_KEYWORDS_FOR_POEM keyword ids.
C28_AtMostMaxKeywords ==
  /\ Len(gen["scheduler"].keywords) <= MAX_KEYWORDS_FOR_POEM
  /\ \A i \in DOMAIN db.poems :
       LET ids == from_json(db.poems[i].keyword_ids)
       IN  ids.tag = "Ok" => Len(ids.val) <= MAX_KEYWORDS_FOR_POEM

(***************************************************************************)
(* The keyword of a tick.                                                  *)
(***************************************************************************)
\* blocks with the primary hash of b and another previous hash, other
\* signatures and counts, another slot and time
SameHashBlocks(b) ==
  {[b EXCEPT !.previous_blockhash = p,
             !.sample_signatures = sigs,
             !.transaction_count = Len(sigs),
             !.slot = s,
             !.parent_slot = s - 1,
             !.block_height = IF known THEN Some(s) ELSE None,
             !.block_time = IF known THEN Some(1000 + s) ELSE None] :
     p \in {HashNames[i] : i \in DOMAIN HashNames},
     sigs \in {<<>>, <<"sig1">>, <<"sig1", "sig2", "sig3">>},
     s \in {b.slot, b.slot + 1},
     known \in BOOLEAN}

\* C29: the keyword a tick derives from the block it fetched is the one
\* every block with the same primary hash yields with this dictionary
\* (compared when the collection step has ended), and the tick stores one
\* row, which carries that word and index and the slot, hash and time of
\* the fetched block.
C29_OneKeywordFromPrimaryHash ==
  (tickOps.fetches = 1 /\ IsSome(tickOps.block)) =>
    LET block == tickOps.block[1]
        keyword == derive_keyword(dictionary, block)
    IN  /\ pc \in {"poem_check", "panicked"} =>
             \A other \in SameHashBlocks(block) :
               LET k == derive_keyword(dictionary, other)
               IN  /\ k.tag = keyword.tag
                   /\ k.tag = "Ok" => /\ k.val.word = keyword.val.word
                                      /\ k.val.word_index = keyword.val.word_index
        /\ tickOps.inserts <= 1
        /\ TickAddedRow =>
             LET row == db.keywords[Len(db.keywords)]
             IN  /\ Len(db.keywords) = Len(tickOps.keywords) + 1
                 /\ row.word = keyword.val.word
                 /\ row.word_index = keyword.val.word_index
                 /\ row.slot = block.slot
                 /\ row.blockhash = block.blockhash
                 /\ row.block_time = block.block_time
                 /\ \A i \in DOMAIN db.keywords :
                      db.keywords[i].blockhash = row.blockhash =>
                        db.keywords[i].word = row.word

\* a tick has stored the keyword of a block whose primary hash an earlier
\* block at another slot had
C29_Witness ==
  /\ TickAddedRow
  /\ pc = "idle"
  /\ \E i \in DOMAIN tickOps.keywords :
       /\ tickOps.keywords[i].blockhash = tickOps.block[1].blockhash
       /\ tickOps.keywords[i].slot # tickOps.block[1].slot

\* the row the running tick added
AddedRow == db.keywords[Len(db.keywords)]

\* the tick added the keyword that brings its day to the threshold: the
\* day had MIN_KEYWORDS_FOR_POEM - 1 keywords when the tick began
ReachesThreshold ==
  /\ TickAddedRow
  /\ Cardinality(IdsOn([keywords |-> tickOps.keywords], DateOf(AddedRow.created_at)))
       = MIN_KEYWORDS_FOR_POEM - 1

\* C30: the keyword a tick stores counts in the threshold check of the
\* same tick. When the day had MIN_KEYWORDS_FOR_POEM - 1 keywords and no
\* poem and the tick inserts a new slot, the keyword query of the same
\* tick passes the threshold and calls generate_poem with the new
\* keyword, and when generation and the upsert succeed the tick ends with
\* the day's poem stored, the new keyword's id among its keyword_ids.
C30_SameTickThreshold ==
  /\ []((/\ ReachesThreshold
         /\ pc = "idle"
         /\ tickGen = "ok"
         /\ poemResult = "ok") =>
          LET day == DateOf(AddedRow.created_at)
          IN  /\ day \notin {tickPoems[i].date : i \in DOMAIN tickPoems}
              /\ day \in PoemDates(db)
              /\ LET ids == from_json(PoemOn(db, day).keyword_ids).val
                 IN  /\ Len(ids) = MIN_KEYWORDS_FOR_POEM
                     /\ \E k \in DOMAIN ids : ids[k] = AddedRow.id)
  /\ [][(/\ ReachesThreshold
         /\ pc = "poem_keywords"
         /\ pc' # pc
         /\ local.today = DateOf(AddedRow.created_at)
         /\ poemResult' # "err") =>
          /\ pc' = "generate"
          /\ Len(local'.keywords) = MIN_KEYWORDS_FOR_POEM
          /\ \E k \in DOMAIN local'.keywords : local'.keywords[k] = AddedRow
          /\ \E k \in DOMAIN gen'["scheduler"].keywords :
               gen'["scheduler"].keywords[k] = AddedRow.word]_vars

\* a tick began with MIN_KEYWORDS_FOR_POEM - 1 keywords of the day, stored
\* one more and stored the day's poem
C30_Witness ==
  /\ ReachesThreshold
  /\ pc = "idle"
  /\ tickGen = "ok"
  /\ poemResult = "ok"
  /\ DateOf(AddedRow.created_at) \in PoemDates(db)

(***************************************************************************)
(* The poems the scheduler writes.                                         *)
(***************************************************************************)
\* C31: each id in the keyword_ids of a stored poem is the id of a stored
\* keyword created on the poem's date, and no id is listed twice.
C31_PoemIdsAreKeywordsOfItsDay ==
  \A p \in DOMAIN db.poems :
    LET ids == from_json(db.poems[p].keyword_ids)
    IN  /\ ids.tag = "Ok"
        /\ \A k \in DOMAIN ids.val :
             \E i \in DOMAIN db.keywords :
               /\ db.keywords[i].id = ids.val[k]
               /\ DateOf(db.keywords[i].created_at) = db.poems[p].date
        /\ \A j, k \in DOMAIN ids.val : ids.val[j] = ids.val[k] => j = k

\* a poem is stored, and a keyword that was collected after it is not in
\* its list
C31_Witness ==
  /\ db.poems # <<>>
  /\ Len(from_json(db.poems[1].keyword_ids).val) >= MIN_KEYWORDS_FOR_POEM
  /\ Len(db.keywords) > Len(from_json(db.poems[1].keyword_ids).val)

\* C32: a step that writes a poem row is the end of the poem phase of a
\* tick and writes the row of the date that this poem phase read when it
\* began; the date is read from the clock at that point and kept to the
\* end of the phase, so a tick that begins its poem phase on a later day
\* writes no poem for a day that has passed.
C32_PoemOnlyForDateOfPhase ==
  [][/\ (pc = "poem_check" /\ pc' = "poem_keywords") => local'.today = today(now)
     /\ (pc = "poem_keywords" /\ pc' = "generate") => local'.today = local.today
     /\ \A i \in DOMAIN db'.poems :
          (i \notin DOMAIN db.poems \/ db'.poems[i] # db.poems[i]) =>
            /\ pc = "generate"
            /\ db'.poems[i].date = local.today
            /\ local.today <= today(now)]_vars

\* the first day has ended with its threshold reached and no poem, and a
\* tick of the second day has run its poem phase without generating
C32_Witness ==
  /\ now.date = 1
  /\ 0 \notin PoemDates(db)
  /\ Len(KeywordsOn(db, 0)) >= MIN_KEYWORDS_FOR_POEM
  /\ pc = "idle"
  /\ poemResult = "ok"
  /\ tickGen = "none"
  /\ tickOps.fetches = 1

(***************************************************************************)
(* The value insert_keyword returns.                                       *)
(***************************************************************************)
\* C33: a successful insert_keyword returns the id of the stored row that
\* holds the slot of the keyword, when it added the row and when a row
\* with that slot was there before.
C33_ReturnsIdOfSlotRow ==
  (call.op = "insert_keyword" /\ call.ret.tag = "Ok") =>
    \E i \in DOMAIN db.keywords :
      /\ db.keywords[i].slot = call.slot
      /\ db.keywords[i].id = call.ret.val

(***************************************************************************)
(* scheduler.rs: run_once, the single collection of the test mode.         *)
(***************************************************************************)
\* collector.run_once() is called
RunOnceCall ==
  /\ pc = "idle"
  /\ call.op # "run_once_running"
  /\ pc' = "collect"
  /\ call' = [op |-> "run_once_running"]
  /\ collectResult' = "none"
  /\ poemResult' = "none"
  /\ tickGen' = "none"
  /\ tickOps' = NoOps(db)
  /\ UNCHANGED <<dictionary, envVars, db, local, tickPoems, gen, bf>>

\* self.collect_keyword().await?
RunOnceCollect ==
  /\ pc = "collect"
  /\ \E fetched \in LatestBlocks, fault \in BOOLEAN :
       LET r == collect_keyword(db, dictionary, now, fetched, fault)
       IN  /\ db' = r.db
           /\ collectResult' = ResultName(r.ret)
           /\ pc' = CASE r.ret.tag = "Panic" -> "panicked"
                      [] r.ret.tag = "Err" -> "idle"
                      [] OTHER -> "poem_check"
           /\ call' = IF r.ret.tag = "Err" THEN [op |-> "run_once", ret |-> r.ret] ELSE call
           /\ tickOps' =
                [tickOps EXCEPT
                   !.fetches = @ + 1,
                   !.block = IF fetched.tag = "Ok" THEN Some(fetched.val) ELSE None,
                   !.inserts = IF fetched.tag = "Ok"
                                  /\ derive_keyword(dictionary, fetched.val).tag = "Ok"
                                 THEN @ + 1 ELSE @]
  /\ UNCHANGED <<dictionary, envVars, local, poemResult, tickGen, tickPoems, gen, bf>>

\* self.maybe_generate_daily_poem().await? has returned; Ok(())
RunOnceReturn ==
  /\ pc = "idle"
  /\ call.op = "run_once_running"
  /\ poemResult # "none"
  /\ call' = [op |-> "run_once",
              ret |-> IF poemResult = "err" THEN Err("Database error") ELSE Ok("unit")]
  /\ UNCHANGED <<dictionary, envVars, db, schedVars, gen, bf>>

NextOnce ==
  \/ ChainAdvance
  \/ RunOnceCall
  \/ RunOnceCollect
  \/ SchedPoemCheck
  \/ SchedPoemKeywords
  \/ SchedAfterGenerate
  \/ GenSleep("scheduler")
  \/ GenTry("scheduler")
  \/ RunOnceReturn

\* any number of runs of the test mode on one store
SpecOnce == Init /\ [][NextOnce]_vars

\* C34: when the collection step of run_once fails, run_once returns that
\* error without entering the poem phase and without writing a poem; when
\* generate_poem fails inside the poem phase, run_once returns Ok.
C34_RunOnceNotIsolated ==
  /\ [](/\ collectResult \in {"err", "panic"} =>
             /\ pc = "idle"
             /\ call.op = "run_once" /\ call.ret.tag = "Err"
             /\ poemResult = "none"
             /\ tickOps.generations = 0
        /\ (call.op = "run_once" /\ collectResult = "ok" /\ tickGen = "err") =>
             call.ret = Ok("unit"))
  /\ [][collectResult' \in {"err", "panic"} => db'.poems = db.poems]_vars

(***************************************************************************)
(* The today status.                                                       *)
(***************************************************************************)
\* C35: the today status reports the scheduler's threshold as
\* keywords_needed, and never reports a ready poem together with fewer
\* collected keywords than keywords_needed.
C35_StatusThresholdIsSchedulerThreshold ==
  (call.op = "get_today" /\ call.response.status = OK200) =>
    LET body == call.response.body
    IN  /\ body.poem_ready => body.keywords_collected >= body.keywords_needed
        /\ body.keywords_needed = MIN_KEYWORDS_FOR_POEM

MaxBlocks == 3

RECURSIVE PushUnseen_PushesAll(_, _, _)
RECURSIVE PushUnseen(_, _, _)
\* mutant: every keyword is pushed, seen or not
PushUnseen_PushesAll(acc, keywords, i) ==
  IF i > Len(keywords) THEN acc
  ELSE LET kw == keywords[i]
       IN  PushUnseen_PushesAll([all_keywords |-> Append(acc.all_keywords, kw),
                                 seen_words |-> acc.seen_words \cup {kw.word}],
                                keywords, i + 1)

\* for kw in keywords { if seen_words.insert(kw.word) { all_keywords.push(kw) } }
PushUnseen(acc, keywords, i) ==
  IF i > Len(keywords) THEN acc
  ELSE LET kw == keywords[i]
       IN  IF kw.word \in acc.seen_words
             THEN PushUnseen(acc, keywords, i + 1)
             ELSE PushUnseen([all_keywords |-> Append(acc.all_keywords, kw),
                              seen_words |-> acc.seen_words \cup {kw.word}],
                             keywords, i + 1)

RECURSIVE BlocksLoop(_, _, _, _)
\* for block in blocks; a panic of derive_multiple_keywords unwinds
BlocksLoop(dict, blocks, acc, b) ==
  IF b > Len(blocks) THEN Ok(acc.all_keywords)
  ELSE LET keywords == derive_multiple_keywords(dict, blocks[b])
       IN  IF keywords.tag # "Ok" THEN keywords
           ELSE BlocksLoop(dict, blocks, PushUnseen(acc, keywords.val, 1), b + 1)

derive_keywords_from_blocks(dict, blocks) ==
  BlocksLoop(dict, blocks, [all_keywords |-> <<>>, seen_words |-> {}], 1)

\* the batches: every list of up to MaxBlocks blocks with few signatures
BatchBlocks ==
  {DeriveBlock(s, sigs, Some(s)) :
     s \in DeriveSlots,
     sigs \in {<<>>, <<"sig1">>, <<"sig3", "sig1">>, <<"sig1", "sig3", "sig1">>}}
BlockLists == UNION {[1..n -> BatchBlocks] : n \in 0..MaxBlocks}

\* one call of derive_keywords_from_blocks on one instance
ClientDeriveFromBlocks ==
  /\ call = NoCall
  /\ \E blocks \in BlockLists :
       call' = [op |-> "derive_from_blocks", blocks |-> blocks,
                ret |-> derive_keywords_from_blocks(dictionary, blocks)]
  /\ UNCHANGED <<dictionary, envVars, db, schedVars, gen, bf>>

NextBatch == ClientDeriveFromBlocks

SpecBatch == InitDerive /\ [][NextBatch]_vars

RECURSIVE Concatenated(_, _, _)
\* the outputs of derive_multiple_keywords for blocks b.., one after another
Concatenated(dict, blocks, b) ==
  IF b > Len(blocks) THEN <<>>
  ELSE derive_multiple_keywords(dict, blocks[b]).val \o Concatenated(dict, blocks, b + 1)

\* C37: derive_keywords_from_blocks returns the keywords of all blocks'
\* derive_multiple_keywords outputs in their order, each word at its first
\* occurrence only: no word twice, first occurrences in their order. It
\* has a result exactly when every block has an output.
C37_BatchFirstOccurrences ==
  (call.op = "derive_from_blocks") =>
    LET HasOutput(b) == derive_multiple_keywords(dictionary, call.blocks[b]).tag = "Ok"
    IN  /\ call.ret.tag = "Ok" <=> \A b \in DOMAIN call.blocks : HasOutput(b)
        /\ call.ret.tag = "Ok" =>
             LET all == Concatenated(dictionary, call.blocks, 1)
                 res == call.ret.val
                 First(w) == CHOOSE i \in DOMAIN all :
                               all[i].word = w /\ \A j \in 1..(i - 1) : all[j].word # w
             IN  /\ \A k, l \in DOMAIN res : res[k].word = res[l].word => k = l
                 /\ {res[k].word : k \in DOMAIN res} = {all[i].word : i \in DOMAIN all}
                 /\ \A k \in DOMAIN res : res[k] = all[First(res[k].word)]
                 /\ \A k, l \in DOMAIN res :
                      k < l => First(res[k].word) < First(res[l].word)

\* a call on several blocks returned three or more keywords and left out
\* words that an earlier block had given
C37_Witness ==
  /\ call.op = "derive_from_blocks"
  /\ call.ret.tag = "Ok"
  /\ Len(call.blocks) >= 2
  /\ Len(call.ret.val) >= 3
  /\ Len(Concatenated(dictionary, call.blocks, 1)) > Len(call.ret.val) + 2
====
